---------------------------- MODULE Spec2Model ----------------------------
(***************************************************************************)
(* Bragg-disk detection of py4DSTEM: the detection entry points            *)
(* find_Bragg_disks_single_DP_FK, find_Bragg_disks_single_DP,              *)
(* find_Bragg_disks_selected and find_Bragg_disks, and the post-processor  *)
(* threshold_Braggpeaks of process/braggdiskdetection/diskdetection.py,    *)
(* over PointList / PointListArray containers.                             *)
(*                                                                         *)
(* A PointListArray is an object holding one PointList per scan position;  *)
(* each PointList is an object of its own, so the model keeps the grid     *)
(* (shape, column names, the reference to each cell) apart from the heap   *)
(* that holds the rows of every PointList.  A row is a function from       *)
(* column names to numbers.  Python's False is a value that is identical   *)
(* to nothing else but counts as 0 in arithmetic: a parameter is a record  *)
(* with the flag isFalse and the number it counts as.                      *)
(***************************************************************************)
EXTENDS Integers, Sequences, FiniteSets, TLC

VARIABLES
  pc,                   \* where the running call stands
  err,                  \* the exception that ended the call, "" when none
  datacube,             \* find_Bragg_disks: [R_Nx, R_Ny, data]
  subpixel,             \* find_Bragg_disks: the subpixel argument
  pointlistarray,       \* the PointListArray: [id, shape, coords, cells]
  heap,                 \* PointList reference -> [coordinates, data]; qx
                        \* and qy of a row are whole numbers of quarter
                        \* pixels
  minRelativeIntensity, \* arguments of these names of the running call
  minPeakSpacing,
  maxNumPeaks,
  Rx, Ry,               \* loop indices over scan positions
  i,                    \* loop index of the spacing sweep (0-based)
  deletemask,           \* the sweep's boolean mask
  ret,                  \* reference returned by the call, 0 while none
  pointlistarray0,      \* history: the grid as it was passed in
  heap0,                \* history: the rows of every PointList at the call
  writeLog,             \* history: detection writes, in order
  call,                 \* the entry point called and its other arguments
  cc,                   \* the surface last handed to get_maxima_2D
  work,                 \* history: the numerical routines called, in order
  upsampled,            \* history: the calls of upsampled_correlation
  result,               \* the value returned by a detection entry point
  args,                 \* the arguments the Array constructor is given
  array,                \* the Array under construction or constructed
  group,                \* the HDF5 group: key -> the group stored under it
  out                   \* the value returned by the last Array operation

vars == <<pc, err, datacube, subpixel, pointlistarray, heap,
          minRelativeIntensity, minPeakSpacing, maxNumPeaks, Rx, Ry, i,
          deletemask, ret, pointlistarray0, heap0, writeLog, call, cc, work,
          upsampled, result, args, array, group, out>>

\* the variables only detection touches
detectVars == <<call, cc, work, upsampled, result>>

\* the variables only the Array class and its HDF5 functions touch
arrayVars == <<args, array, group, out>>

\* no Array is being constructed, stored or read
NoArgs == [data |-> <<>>]
NoArray == [data |-> <<>>]
NoGroup == <<>>
NoOut == [op |-> ""]

----------------------------------------------------------------------------
(* Bounds of the model *)

\* most rows a grid handed to threshold_Braggpeaks holds, over all its cells
MaxRows == 3

\* scan shapes of the grids handed to threshold_Braggpeaks
GridShapes == {<<1, 1>>, <<1, 2>>, <<2, 1>>}

\* peak positions (qx, qy), in quarter pixels, and intensities of the rows
Points == {<<0, 0>>, <<4, 4>>, <<8, 8>>}
Intensities == {1, 2}

\* the column sets of the grids: the detection schema, and three that lack a
\* required column
PeakCoords == {"qx", "qy", "intensity"}
CoordSets == {PeakCoords, {"qx", "qy"}, {"qy", "intensity"}, {"qx", "intensity"}}

\* Python's False, and a number given for a parameter
PyFalse == [isFalse |-> TRUE, val |-> 0, den |-> 1]
Num(n) == [isFalse |-> FALSE, val |-> n, den |-> 1]
Frac(n, d) == [isFalse |-> FALSE, val |-> n, den |-> d]

\* the values tried for each parameter of threshold_Braggpeaks
RelIntensityValues == {PyFalse, Frac(1, 2), Frac(3, 4)}
PeakSpacingValues == {PyFalse, Frac(3, 2), Num(2), Num(3)}
NumPeaksValues == {PyFalse, Num(1), Num(2)}

----------------------------------------------------------------------------
(* Scan positions *)

Positions(shape) == (0 .. shape[1] - 1) \X (0 .. shape[2] - 1)

\* the k-th position (k from 0) of the loops "for Rx ... for Ry ..."
RowMajor(shape, k) == <<k \div shape[2], k % shape[2]>>

NumCells(shape) == shape[1] * shape[2]

----------------------------------------------------------------------------
(* PointList and PointListArray *)

Peak(p, v) == [c \in PeakCoords |->
                 IF c = "qx" THEN p[1] ELSE IF c = "qy" THEN p[2] ELSE v]

Project(row, coords) == [c \in coords |-> row[c]]

Column(rows, c) == [k \in 1 .. Len(rows) |-> rows[k][c]]

MaxOf(s) == CHOOSE v \in {s[k] : k \in 1 .. Len(s)} :
              \A k \in 1 .. Len(s) : s[k] <= v

MinOf(s) == CHOOSE v \in {s[k] : k \in 1 .. Len(s)} :
              \A k \in 1 .. Len(s) : s[k] >= v

RemoveAt(s, k) == SubSeq(s, 1, k - 1) \o SubSeq(s, k + 1, Len(s))

\* PointList.sort(coordinate, order): stable sort of the rows by one column
RECURSIVE PointList_sort(_, _, _)
PointList_sort(rows, coordinate, order) ==
  IF rows = <<>> THEN <<>>
  ELSE LET col == Column(rows, coordinate)
           v == IF order = "descending" THEN MaxOf(col) ELSE MinOf(col)
           k == CHOOSE n \in 1 .. Len(rows) :
                  /\ col[n] = v
                  /\ \A m \in 1 .. n - 1 : col[m] # v
       IN <<rows[k]>> \o PointList_sort(RemoveAt(rows, k), coordinate, order)

\* PointList.remove_points(mask): drops exactly the masked rows
PointList_remove_points(rows, mask) ==
  LET F[k \in 0 .. Len(rows)] ==
        IF k = 0 THEN <<>>
        ELSE IF mask[k] THEN F[k - 1] ELSE Append(F[k - 1], rows[k])
  IN F[Len(rows)]

\* PointListArray.get_pointlist(Rx, Ry): the reference held by the cell
get_pointlist(pla, rx, ry) == pla.cells[<<rx, ry>>]

----------------------------------------------------------------------------
(* threshold_Braggpeaks *)

\* a faulty variant of the assertion: 'qx' is not asked for
SchemaOK_partial(pla) == \A item \in {"qy", "intensity"} : item \in pla.coords

\* line 340: the schema assertion
SchemaOK(pla) == \A item \in {"qx", "qy", "intensity"} : item \in pla.coords

\* a faulty variant of the sort call: ascending order
SortCell_ascending(rows) == PointList_sort(rows, "intensity", "ascending")

\* line 344: the sort call
SortCell(rows) == PointList_sort(rows, "intensity", "descending")

\* a faulty variant of the threshold: <= in place of <
IntensityMask_le(rows, mri) ==
  LET mx == MaxOf(Column(rows, "intensity"))
  IN [k \in 1 .. Len(rows) |->
        IF mx > 0 THEN rows[k]["intensity"] * mri.den <= mri.val * mx
        ELSE IF mx < 0 THEN rows[k]["intensity"] * mri.den >= mri.val * mx
        ELSE rows[k]["intensity"] < 0]

\* lines 348-349: intensity/max(intensity) < minRelativeIntensity, the
\* quotient taken in floating point.  Over a positive maximum the test is
\* intensity < minRelativeIntensity * max; over a negative maximum the
\* division turns the comparison round; over a zero maximum the quotient of 0
\* is nan, which compares False, and that of a negative intensity is -inf,
\* which is below every minRelativeIntensity.
IntensityMask(rows, mri) ==
  LET mx == MaxOf(Column(rows, "intensity"))
  IN [k \in 1 .. Len(rows) |->
        IF mx > 0 THEN rows[k]["intensity"] * mri.den < mri.val * mx
        ELSE IF mx < 0 THEN rows[k]["intensity"] * mri.den > mri.val * mx
        ELSE rows[k]["intensity"] < 0]

\* lines 358-360: the rows too close to row n (0-based), those up to n
\* excluded; r2 is in pixels squared, the squared distance of two rows in
\* quarter pixels squared, 16 to the pixel squared
\* a faulty variant of the closeness mask: tooClose[:i+1] is not cleared
TooClose_unmasked(rows, n, r2) ==
  [k \in 1 .. Len(rows) |->
     ((rows[k]["qx"] - rows[n + 1]["qx"]) * (rows[k]["qx"] - rows[n + 1]["qx"])
     + (rows[k]["qy"] - rows[n + 1]["qy"]) * (rows[k]["qy"] - rows[n + 1]["qy"]))
     * r2.den < 16 * r2.val]

TooClose(rows, n, r2) ==
  [k \in 1 .. Len(rows) |->
     /\ k > n + 1
     /\ ((rows[k]["qx"] - rows[n + 1]["qx"]) * (rows[k]["qx"] - rows[n + 1]["qx"])
         + (rows[k]["qy"] - rows[n + 1]["qy"]) * (rows[k]["qy"] - rows[n + 1]["qy"]))
        * r2.den < 16 * r2.val]

\* a faulty variant of the loop body: row n is not tested for being unmarked
SweepStep_nocheck(rows, mask, n, r2) ==
  LET tooClose == TooClose(rows, n, r2)
  IN [k \in 1 .. Len(rows) |-> mask[k] \/ tooClose[k]]

\* lines 357-361: one pass of the sweep's loop body
SweepStep(rows, mask, n, r2) ==
  IF mask[n + 1] = FALSE
  THEN LET tooClose == TooClose(rows, n, r2)
       IN [k \in 1 .. Len(rows) |-> mask[k] \/ tooClose[k]]
  ELSE mask

\* line 368: the 0-based index deletemask[maxNumPeaks:] starts at; a negative
\* maxNumPeaks counts from the end of the mask and stops at its start
SliceStart(length, n) ==
  IF n >= 0 THEN n ELSE IF length + n > 0 THEN length + n ELSE 0

\* a faulty variant of the truncation mask: it starts one row too early
TruncateMask_early(length, mnp) ==
  [k \in 1 .. length |-> k >= SliceStart(length, mnp.val)]

\* a faulty variant of the truncation mask: one row too many is kept
TruncateMask_offbyone(length, mnp) ==
  [k \in 1 .. length |-> k > SliceStart(length, mnp.val) + 1]

\* lines 367-368: the truncation mask, deletemask[maxNumPeaks:] = True over
\* a mask of zeros
TruncateMask(length, mnp) ==
  [k \in 1 .. length |-> k > SliceStart(length, mnp.val)]

\* a faulty variant of r2: the square is left out
R2_notsquared(mps) == Frac(mps.val, mps.den)

\* line 354: r2 = minPeakSpacing**2, in pixels squared
R2(mps) == Frac(mps.val * mps.val, mps.den * mps.den)

\* lines 347, 353 and 365: the conditions guarding the three filters
IntensityEnabled(mri, mps, mnp) == ~mri.isFalse
SpacingEnabled(mri, mps, mnp) == ~mnp.isFalse

\* a faulty variant of the truncation guard: the truth value of maxNumPeaks
\* is tested, so that 0 disables the filter as False does
TruncateEnabled_truthy(mri, mps, mnp) == ~mnp.isFalse /\ mnp.val # 0

TruncateEnabled(mri, mps, mnp) == ~mnp.isFalse

\* a faulty variant of the mask: one entry too many
Zeros_long(length) == [k \in 1 .. length + 1 |-> FALSE]

\* line 355: np.zeros(pointlist.length, dtype=bool)
Zeros(length) == [k \in 1 .. length |-> FALSE]

\* a faulty variant of the return: a copy of the grid, a new object
ReturnValue_copy(pla) == pla.id + 1

\* line 371: the value returned
ReturnValue(pla) == pla.id

\* the PointList the loop body works on (line 343)
pointlist == get_pointlist(pointlistarray, Rx, Ry)

\* lines 341-342: the loops' next position after (Rx, Ry), or the end
CellIndex(shape, rx, ry) == rx * shape[2] + ry
HasNext(shape, rx, ry) == CellIndex(shape, rx, ry) + 1 < NumCells(shape)
NextPos(shape, rx, ry) == RowMajor(shape, CellIndex(shape, rx, ry) + 1)

Raise(e) ==
  /\ pc' = "error"
  /\ err' = e

\* lines 327-342: the call, its schema assertion and the entry of the loops
\* the entry of threshold_Braggpeaks with its three parameters bound: the
\* schema assertion, then the first cell if there is one
threshold_Braggpeaks_enter(mri, mps, mnp) ==
  /\ pointlistarray.id # 0
  /\ minRelativeIntensity' = mri
  /\ minPeakSpacing' = mps
  /\ maxNumPeaks' = mnp
  /\ IF ~SchemaOK(pointlistarray)
     THEN Raise("AssertionError")
     ELSE /\ pc' = IF NumCells(pointlistarray.shape) > 0 THEN "sort" ELSE "return"
          /\ err' = err
  /\ UNCHANGED <<datacube, subpixel, pointlistarray, heap, i, deletemask,
                 writeLog>>

threshold_Braggpeaks_call ==
  /\ pc = "idle"
  /\ \E mri \in RelIntensityValues, mps \in PeakSpacingValues,
        mnp \in NumPeaksValues :
       threshold_Braggpeaks_enter(mri, mps, mnp)
  /\ UNCHANGED <<Rx, Ry, ret, pointlistarray0, heap0>>
  /\ UNCHANGED detectVars
  /\ UNCHANGED arrayVars

\* lines 343-344: fetch the cell's PointList and sort it
threshold_sort ==
  /\ pc = "sort"
  /\ IF "intensity" \notin pointlistarray.coords
     THEN /\ Raise("AssertionError")
          /\ heap' = heap
     ELSE /\ heap' = [heap EXCEPT ![pointlist].data = SortCell(@)]
          /\ pc' = "intensity"
          /\ err' = err
  /\ UNCHANGED <<datacube, subpixel, pointlistarray, minRelativeIntensity,
                 minPeakSpacing, maxNumPeaks, Rx, Ry, i, deletemask, ret,
                 pointlistarray0, heap0, writeLog>>
  /\ UNCHANGED detectVars
  /\ UNCHANGED arrayVars

\* lines 346-350: the intensity threshold; max() of no rows raises
threshold_intensity ==
  /\ pc = "intensity"
  /\ IF IntensityEnabled(minRelativeIntensity, minPeakSpacing, maxNumPeaks)
     THEN IF heap[pointlist].data = <<>>
          THEN /\ Raise("ValueError")
               /\ UNCHANGED <<heap, deletemask>>
          ELSE /\ deletemask' = IntensityMask(heap[pointlist].data,
                                               minRelativeIntensity)
               /\ heap' = [heap EXCEPT ![pointlist].data =
                             PointList_remove_points(@, deletemask')]
               /\ pc' = "spacing"
               /\ err' = err
     ELSE /\ pc' = "spacing"
          /\ UNCHANGED <<err, heap, deletemask>>
  /\ UNCHANGED <<datacube, subpixel, pointlistarray, minRelativeIntensity,
                 minPeakSpacing, maxNumPeaks, Rx, Ry, i, ret,
                 pointlistarray0, heap0, writeLog>>
  /\ UNCHANGED detectVars
  /\ UNCHANGED arrayVars

\* lines 353-356: the guard of the spacing filter and the sweep's set-up
threshold_sweep_init ==
  /\ pc = "spacing"
  /\ IF SpacingEnabled(minRelativeIntensity, minPeakSpacing, maxNumPeaks)
     THEN /\ deletemask' = Zeros(Len(heap[pointlist].data))
          /\ i' = 0
          /\ pc' = "sweep"
     ELSE /\ pc' = "truncate"
          /\ UNCHANGED <<deletemask, i>>
  /\ UNCHANGED <<err, datacube, subpixel, pointlistarray, heap,
                 minRelativeIntensity, minPeakSpacing, maxNumPeaks, Rx, Ry,
                 ret, pointlistarray0, heap0, writeLog>>
  /\ UNCHANGED detectVars
  /\ UNCHANGED arrayVars

\* lines 356-361: one iteration of the sweep
threshold_sweep_iter ==
  /\ pc = "sweep"
  /\ i < Len(heap[pointlist].data)
  /\ IF deletemask[i + 1] = FALSE /\ ~({"qx", "qy"} \subseteq pointlistarray.coords)
     THEN /\ Raise("ValueError")
          /\ UNCHANGED <<deletemask, i>>
     ELSE /\ deletemask' = SweepStep(heap[pointlist].data, deletemask, i,
                                     R2(minPeakSpacing))
          /\ i' = i + 1
          /\ UNCHANGED <<pc, err>>
  /\ UNCHANGED <<datacube, subpixel, pointlistarray, heap,
                 minRelativeIntensity, minPeakSpacing, maxNumPeaks, Rx, Ry,
                 ret, pointlistarray0, heap0, writeLog>>
  /\ UNCHANGED detectVars
  /\ UNCHANGED arrayVars

\* line 362: the sweep is over, the masked rows are removed
threshold_sweep_remove ==
  /\ pc = "sweep"
  /\ i >= Len(heap[pointlist].data)
  /\ heap' = [heap EXCEPT ![pointlist].data =
                PointList_remove_points(@, deletemask)]
  /\ pc' = "truncate"
  /\ UNCHANGED <<err, datacube, subpixel, pointlistarray,
                 minRelativeIntensity, minPeakSpacing, maxNumPeaks, Rx, Ry, i,
                 deletemask, ret, pointlistarray0, heap0, writeLog>>
  /\ UNCHANGED detectVars
  /\ UNCHANGED arrayVars

\* lines 364-369, then the loops' step to the next cell
threshold_truncate ==
  /\ pc = "truncate"
  /\ IF /\ TruncateEnabled(minRelativeIntensity, minPeakSpacing, maxNumPeaks)
        /\ maxNumPeaks.val < Len(heap[pointlist].data)
     THEN /\ deletemask' = TruncateMask(Len(heap[pointlist].data), maxNumPeaks)
          /\ heap' = [heap EXCEPT ![pointlist].data =
                        PointList_remove_points(@, deletemask')]
     ELSE UNCHANGED <<heap, deletemask>>
  /\ IF HasNext(pointlistarray.shape, Rx, Ry)
     THEN /\ Rx' = NextPos(pointlistarray.shape, Rx, Ry)[1]
          /\ Ry' = NextPos(pointlistarray.shape, Rx, Ry)[2]
          /\ pc' = "sort"
     ELSE /\ pc' = "return"
          /\ UNCHANGED <<Rx, Ry>>
  /\ UNCHANGED <<err, datacube, subpixel, pointlistarray,
                 minRelativeIntensity, minPeakSpacing, maxNumPeaks, i, ret,
                 pointlistarray0, heap0, writeLog>>
  /\ UNCHANGED detectVars
  /\ UNCHANGED arrayVars

\* line 371: return pointlistarray
threshold_return ==
  /\ pc = "return"
  /\ ret' = ReturnValue(pointlistarray)
  /\ pc' = "done"
  /\ UNCHANGED <<err, datacube, subpixel, pointlistarray, heap,
                 minRelativeIntensity, minPeakSpacing, maxNumPeaks, Rx, Ry, i,
                 deletemask, pointlistarray0, heap0, writeLog>>
  /\ UNCHANGED detectVars
  /\ UNCHANGED arrayVars

----------------------------------------------------------------------------
(* The grids threshold_Braggpeaks is called on *)

Pool == {Peak(p, v) : p \in Points, v \in Intensities}

RowLists == UNION {[1 .. n -> Pool] : n \in 0 .. MaxRows}

\* the reference held by the cell at a position: cells are numbered from 1
CellRef(shape, p) == CellIndex(shape, p[1], p[2]) + 1

NoCube == [R_Nx |-> 0, R_Ny |-> 0, data |-> <<>>]

\* a position argument: one int, or a tuple or list of ints
IntArg(n) == [isInt |-> TRUE, at |-> <<n>>]
ListArg(ns) == [isInt |-> FALSE, at |-> ns]

\* no detection entry point is called
NoCall == [fn |-> "", DP |-> <<>>, Rx |-> ListArg(<<>>), Ry |-> ListArg(<<>>),
           corrPower |-> Num(1), sigma |-> 0, edgeBoundary |-> 0,
           return_cc |-> FALSE, peaks |-> 0]

\* nothing is returned yet
NoResult == [kind |-> "", peaks |-> 0, cc |-> <<>>, tuple |-> <<>>]

\* a grid of one or two cells holding the rows of L, cut after the first cut
MakeGrid(shape, coords) ==
  [id |-> 1, shape |-> shape, coords |-> coords,
   cells |-> [p \in Positions(shape) |-> CellRef(shape, p)]]

MakeHeap(shape, coords, L, cut) ==
  [r \in 1 .. NumCells(shape) |->
     LET part == IF r = 1 THEN SubSeq(L, 1, cut) ELSE SubSeq(L, cut + 1, Len(L))
     IN [coordinates |-> coords,
         data |-> [k \in 1 .. Len(part) |-> Project(part[k], coords)]]]

Init ==
  /\ pc = "idle"
  /\ err = ""
  /\ datacube = NoCube
  /\ subpixel = "poly"
  /\ \E shape \in GridShapes, coords \in CoordSets, L \in RowLists :
       \E cut \in 0 .. Len(L) :
         /\ NumCells(shape) = 1 => cut = Len(L)
         /\ pointlistarray = MakeGrid(shape, coords)
         /\ heap = MakeHeap(shape, coords, L, cut)
  /\ minRelativeIntensity = PyFalse
  /\ minPeakSpacing = PyFalse
  /\ maxNumPeaks = PyFalse
  /\ Rx = 0
  /\ Ry = 0
  /\ i = 0
  /\ deletemask = <<>>
  /\ ret = 0
  /\ pointlistarray0 = pointlistarray
  /\ heap0 = heap
  /\ writeLog = <<>>
  /\ call = NoCall
  /\ cc = <<>>
  /\ work = <<>>
  /\ upsampled = <<>>
  /\ result = NoResult
  /\ args = NoArgs
  /\ array = NoArray
  /\ group = NoGroup
  /\ out = NoOut

Next ==
  \/ threshold_Braggpeaks_call
  \/ threshold_sort
  \/ threshold_intensity
  \/ threshold_sweep_init
  \/ threshold_sweep_iter
  \/ threshold_sweep_remove
  \/ threshold_truncate
  \/ threshold_return

Spec == Init /\ [][Next]_vars

----------------------------------------------------------------------------
(* find_Bragg_disks_single_DP_FK *)

(***************************************************************************)
(* A diffraction pattern is a record.  data is the array of its pixels, of *)
(* the pattern's own shape (Q_Nx, Q_Ny), each side 1, 2 or 4 pixels long.  *)
(* sub is what the subpixel routines of process/utils find in it: a record *)
(* for a pixel (x, y) holds the offset (dx, dy) the polynomial fit adds to *)
(* a maximum at that pixel and the offset (du, dv) the upsampled search    *)
(* adds to a shift it starts from near it.  fails tells whether the maxima *)
(* search of process/utils raises on the pattern.  Positions and offsets   *)
(* are in quarter pixels, so a pixel is 4.  A complex number is a pair     *)
(* <<re, im>>; the values of a correlation surface are in sixteenths.      *)
(***************************************************************************)

\* line 78: the subpixel modes the assertion accepts
SubpixelModes == {"none", "poly", "multicorr"}

Raises(DP) == DP.fails

Abs(v) == IF v < 0 THEN -v ELSE v

\* ar.shape of an array of two axes
Shape(ar) == <<Len(ar), IF ar = <<>> THEN 0 ELSE Len(ar[1])>>

\* an array of two axes as the values it holds: the sequence of its rows,
\* each the sequence of its values
ndarray(f) == [a \in DOMAIN f |-> f[a] \o <<>>] \o <<>>

\* the pixels of an array in row-major order, as pairs of indices from 1
Pixels(ar) ==
  [t \in 1 .. Shape(ar)[1] * Shape(ar)[2] |->
     <<((t - 1) \div Shape(ar)[2]) + 1, ((t - 1) % Shape(ar)[2]) + 1>>] \o <<>>

\* f[1] + ... + f[n]
RECURSIVE Sum(_, _)
Sum(f, n) == IF n = 0 THEN 0 ELSE f[n] + Sum(f, n - 1)

\* u * v for complex numbers
Times(u, v) == <<u[1] * v[1] - u[2] * v[2], u[1] * v[2] + u[2] * v[1]>>

\* exp(sign 2 pi i n / N) for N = 1, 2 or 4: one of 1, i, -1 and -i
Root(N, n, sign) ==
  CASE (n * (4 \div N)) % 4 = 0 -> <<1, 0>>
    [] (n * (4 \div N)) % 4 = 1 -> <<0, sign>>
    [] (n * (4 \div N)) % 4 = 2 -> <<-1, 0>>
    [] (n * (4 \div N)) % 4 = 3 -> <<0, -sign>>

\* the term of pixel p in component (k, l) of the transform of ar
Term(ar, sign, k, l, p) ==
  Times(ar[p[1]][p[2]],
        Times(Root(Len(ar), (k - 1) * (p[1] - 1), sign),
              Root(Len(ar[1]), (l - 1) * (p[2] - 1), sign)))

\* component (k, l) of the transform of ar: the sum of the terms of the
\* pixels px
Component(ar, sign, k, l, px) ==
  <<Sum([t \in DOMAIN px |-> Term(ar, sign, k, l, px[t])[1]], Len(px)),
    Sum([t \in DOMAIN px |-> Term(ar, sign, k, l, px[t])[2]], Len(px))>>

\* lines 100, 103: np.fft.fft2(ar) with sign -1 and, but for its division by
\* the number of pixels, np.fft.ifft2(ar) with sign 1: component (k, l) is
\* the sum over the pixels (a, b) of ar[a, b] * exp(sign 2 pi i (k a / Q_Nx +
\* l b / Q_Ny)).  With sides of 1, 2 or 4 pixels every such root of unity is
\* 1, i, -1 or -i.
dft2(ar, sign) ==
  ndarray([k \in DOMAIN ar |->
             [l \in DOMAIN ar[k] |-> Component(ar, sign, k, l, Pixels(ar))]])

\* line 100: np.fft.fft2(DP) of an array of real numbers
fft2(ar) ==
  dft2(ndarray([a \in DOMAIN ar |-> [b \in DOMAIN ar[a] |-> <<ar[a][b], 0>>]]),
       -1)

\* the sums of a transform divided by the number of pixels, in sixteenths
PerPixel(sums) ==
  ndarray([a \in DOMAIN sums |->
             [b \in DOMAIN sums[a] |->
                <<(16 \div (Len(sums) * Len(sums[1]))) * sums[a][b][1],
                  (16 \div (Len(sums) * Len(sums[1]))) * sums[a][b][2]>>]])

\* line 103: np.fft.ifft2(ar), in sixteenths
ifft2(ar) == PerPixel(dft2(ar, 1))

\* line 103: np.real(ar)
np_real(ar) ==
  ndarray([a \in DOMAIN ar |-> [b \in DOMAIN ar[a] |-> ar[a][b][1]]])

\* x ** n for a whole number n >= 0, with 0 ** 0 = 1
RECURSIVE Pow(_, _)
Pow(x, n) == IF n = 0 THEN 1 ELSE x * Pow(x, n - 1)

\* line 101: r ** corrPower for a whole number r >= 0 and a fraction
\* corrPower = val / den: the whole number s with s ** den = r ** val (numpy
\* has 0 ** 0 = 1).  The patterns run are those for which it is whole.
Power(r, corrPower) ==
  CHOOSE s \in 0 .. (IF r = 0 THEN 1 ELSE r) :
     Pow(s, corrPower.den) = Pow(r, corrPower.val)

\* line 101: np.abs(m) ** corrPower * np.exp(1j * np.angle(m)) for one
\* component m: m itself at corrPower 1; np.angle(0) is 0; a component on
\* the real or on the imaginary axis keeps its direction and takes the
\* magnitude np.abs(m) ** corrPower (the patterns run have no other
\* component at a corrPower below 1)
Hybrid(m, corrPower) ==
  IF m = <<0, 0>> THEN <<Power(0, corrPower), 0>>
  ELSE IF corrPower.val = corrPower.den THEN m
  ELSE CASE m[2] = 0 ->
              <<(m[1] \div Abs(m[1])) * Power(Abs(m[1]), corrPower), 0>>
         [] m[1] = 0 ->
              <<0, (m[2] \div Abs(m[2])) * Power(Abs(m[2]), corrPower)>>

\* the argument probe_kernel_FT of every call, of the pattern's shape: the
\* transform of a kernel of zero sum, 0 at the zero frequency and 1 at every
\* other
ProbeKernelFT(shape) ==
  ndarray([k \in 1 .. shape[1] |->
             [l \in 1 .. shape[2] |->
                IF k = 1 /\ l = 1 THEN <<0, 0>> ELSE <<1, 0>>]])

\* line 100: m = np.fft.fft2(DP) * probe_kernel_FT, element by element
Multiply(f, g) ==
  ndarray([k \in DOMAIN f |-> [l \in DOMAIN f[k] |-> Times(f[k][l], g[k][l])]])

\* line 101: ccc = np.abs(m) ** corrPower * np.exp(1j * np.angle(m))
HybridPower(m, corrPower) ==
  ndarray([k \in DOMAIN m |->
             [l \in DOMAIN m[k] |-> Hybrid(m[k][l], corrPower)]])

\* lines 100-103 before the clamp: np.real(np.fft.ifft2(ccc)), in
\* sixteenths, where m = np.fft.fft2(DP) * probe_kernel_FT and ccc =
\* np.abs(m) ** corrPower * np.exp(1j * np.angle(m))
Correlate(DP, corrPower) ==
  np_real(ifft2(HybridPower(Multiply(fft2(DP.data),
                                     ProbeKernelFT(Shape(DP.data))),
                            corrPower)))

\* patterns of 4 x 4 pixels: a dark one, one with a spot at pixel (2, 1) and
\* one with a spot of 8 counts at pixel (1, 1) and one of 17 at pixel (3, 3)
DP_empty ==
  [data |-> <<<<0, 0, 0, 0>>, <<0, 0, 0, 0>>, <<0, 0, 0, 0>>, <<0, 0, 0, 0>>>>,
   sub |-> <<>>, fails |-> FALSE]
DP_one ==
  [data |-> <<<<0, 0, 0, 0>>, <<0, 0, 0, 0>>, <<0, 4, 0, 0>>, <<0, 0, 0, 0>>>>,
   sub |-> <<[x |-> 8, y |-> 4, dx |-> 1, dy |-> -1, du |-> 1, dv |-> 0]>>,
   fails |-> FALSE]
DP_two ==
  [data |-> <<<<0, 0, 0, 0>>, <<0, 8, 0, 0>>, <<0, 0, 0, 0>>, <<0, 0, 0, 17>>>>,
   sub |-> <<[x |-> 4, y |-> 4, dx |-> 1, dy |-> -1, du |-> -1, dv |-> 1],
             [x |-> 12, y |-> 12, dx |-> 2, dy |-> 0, du |-> 0, dv |-> 1]>>,
   fails |-> FALSE]
Patterns == {DP_empty, DP_one, DP_two}

\* a pattern of 2 x 4 pixels whose fitted maximum lies half a pixel off a
\* whole pixel
DP_half ==
  [data |-> <<<<0, 0, 0, 0>>, <<0, 0, 1, 0>>>>,
   sub |-> <<[x |-> 4, y |-> 8, dx |-> 2, dy |-> -2, du |-> 1, dv |-> -1]>>,
   fails |-> FALSE]

\* a pattern of 4 x 4 pixels on which the maxima search of process/utils
\* raises
DP_raises ==
  [data |-> <<<<1, 0, 0, 0>>, <<0, 0, 0, 0>>, <<0, 0, 0, 0>>, <<0, 0, 0, 0>>>>,
   sub |-> <<>>, fails |-> TRUE]

DetectPatterns == Patterns \cup {DP_raises, DP_half}

\* line 17: corrPower, a phase, a hybrid and a cross correlation
CorrPowerValues == {Num(0), Frac(1, 2), Num(1)}

\* the correlation of every pattern run at every corrPower run, worked out
\* once
Correlations ==
  [DP \in DetectPatterns |->
     [corrPower \in CorrPowerValues |-> Correlate(DP, corrPower)]]

\* lines 100-103 before the clamp, for a pattern run
CrossCorrelation(DP, corrPower) == Correlations[DP][corrPower]

\* get_cross_correlation_fk(DP, probe_kernel_FT, corrPower): the correlation
\* of spec 4.1 before its clamp
get_cross_correlation_fk(DP, corrPower) == CrossCorrelation(DP, corrPower)

\* np.maximum(ar, m), element by element
np_maximum(ar, m) ==
  ndarray([a \in DOMAIN ar |->
             [b \in DOMAIN ar[a] |-> IF ar[a][b] > m THEN ar[a][b] ELSE m]])

\* a faulty variant of the surface: the multicorr branch left unclamped
CorrelationSurface_unclamped(DP, mode, corrPower) ==
  IF mode = "multicorr" THEN CrossCorrelation(DP, corrPower)
  ELSE np_maximum(get_cross_correlation_fk(DP, corrPower), 0)

\* lines 81-82, 90-91, 100-103: cc, the surface handed to get_maxima_2D
CorrelationSurface(DP, mode, corrPower) ==
  IF mode = "multicorr" THEN np_maximum(CrossCorrelation(DP, corrPower), 0)
  ELSE np_maximum(get_cross_correlation_fk(DP, corrPower), 0)

Clip(n, lo, hi) == IF n < lo THEN lo ELSE IF n > hi THEN hi ELSE n

PixelAt(ar, a, b) == ar[Clip(a, 1, Len(ar))][Clip(b, 1, Len(ar[1]))]

\* scipy's gaussian_filter(ar, sigma): ar itself for sigma 0, else ar smoothed
\* by a 1-2-1 kernel along both axes (edges repeated), in sixteenths
gaussian_filter(ar, sigma) ==
  IF sigma = 0 THEN ar
  ELSE LET Along(a, b) ==
             PixelAt(ar, a, b - 1) + 2 * PixelAt(ar, a, b) + PixelAt(ar, a, b + 1)
       IN ndarray([a \in DOMAIN ar |->
                     [b \in DOMAIN ar[a] |->
                        Along(a - 1, b) + 2 * Along(a, b) + Along(a + 1, b)]])

PixelDist2(p, q) == (p.x - q.x) * (p.x - q.x) + (p.y - q.y) * (p.y - q.y)

\* spec 4.2, step 2: the local maxima of a surface, the pixels above every
\* one of their 8 neighbours
LocalMaxima(ar) ==
  {p \in {Pixels(ar)[t] : t \in DOMAIN Pixels(ar)} :
     \A da \in {-1, 0, 1}, db \in {-1, 0, 1} :
        (/\ <<da, db>> # <<0, 0>>
         /\ p[1] + da \in DOMAIN ar
         /\ p[2] + db \in DOMAIN ar[1])
          => ar[p[1]][p[2]] > ar[p[1] + da][p[2] + db]}

\* spec 4.2, step 3: the maxima within edgeBoundary pixels of an edge of the
\* surface are discarded; the others stay
EdgeFilter(ar, S, edgeBoundary) ==
  {p \in S :
     /\ p[1] - 1 >= edgeBoundary
     /\ p[1] - 1 < Shape(ar)[1] - edgeBoundary
     /\ p[2] - 1 >= edgeBoundary
     /\ p[2] - 1 < Shape(ar)[2] - edgeBoundary}

\* the intensity of the brightest of the maxima S, 0 when there is none
Brightest(ar, S) ==
  IF S = {} THEN 0
  ELSE CHOOSE v \in {ar[p[1]][p[2]] : p \in S} :
         \A p \in S : ar[p[1]][p[2]] <= v

\* spec 4.2, step 4: the maxima of S below minRelativeIntensity times the
\* intensity of the brightest of S are discarded
RelativeFilter(ar, S, mri) ==
  {p \in S : ~ (ar[p[1]][p[2]] * mri.den < mri.val * Brightest(ar, S))}

\* a faulty variant of the extractor: no more than maxNumPeaks maxima kept
get_maxima_2D_capped(surface, sigma, edgeBoundary, mri, minSpacing, maxNum, fit, sub) ==
  LET ar == gaussian_filter(surface, sigma)
      inside == EdgeFilter(ar, LocalMaxima(ar), edgeBoundary)
      left == RelativeFilter(ar, inside, mri)
      found == SelectSeq(Pixels(ar), LAMBDA p : p \in left)
      kept == SubSeq(found, 1, IF Len(found) < maxNum.val
                               THEN Len(found) ELSE maxNum.val)
      At(p) == {k \in DOMAIN sub :
                  sub[k].x = 4 * (p[1] - 1) /\ sub[k].y = 4 * (p[2] - 1)}
      Fitted(p) == IF fit /\ At(p) # {}
                   THEN LET k == CHOOSE k \in At(p) : TRUE
                        IN <<sub[k].dx, sub[k].dy>>
                   ELSE <<0, 0>>
  IN [n \in DOMAIN kept |->
        [x |-> 4 * (kept[n][1] - 1) + Fitted(kept[n])[1],
         y |-> 4 * (kept[n][2] - 1) + Fitted(kept[n])[2],
         intensity |-> ar[kept[n][1]][kept[n][2]]]] \o <<>>

\* get_maxima_2D(surface, sigma, edgeBoundary, minRelativeIntensity,
\* minSpacing, maxNumPeaks, subpixel), called at lines 83-88, 92-97 and 105-110, by the
\* steps of spec 4.2 in their order: the surface is smoothed, its local
\* maxima are located, those near an edge and those below the relative
\* intensity are discarded, and each one left is returned at its pixel or,
\* with subpixel set, at the centre the polynomial fit finds (sub).  The
\* steps of spec 4.2 use neither minSpacing nor maxNumPeaks.  The maxima come
\* in the order of their pixels.
get_maxima_2D(surface, sigma, edgeBoundary, mri, minSpacing, maxNum, fit, sub) ==
  LET ar == gaussian_filter(surface, sigma)
      inside == EdgeFilter(ar, LocalMaxima(ar), edgeBoundary)
      left == RelativeFilter(ar, inside, mri)
      found == SelectSeq(Pixels(ar), LAMBDA p : p \in left)
      At(p) == {k \in DOMAIN sub :
                  sub[k].x = 4 * (p[1] - 1) /\ sub[k].y = 4 * (p[2] - 1)}
      Fitted(p) == IF fit /\ At(p) # {}
                   THEN LET k == CHOOSE k \in At(p) : TRUE
                        IN <<sub[k].dx, sub[k].dy>>
                   ELSE <<0, 0>>
  IN [n \in DOMAIN found |->
        [x |-> 4 * (found[n][1] - 1) + Fitted(found[n])[1],
         y |-> 4 * (found[n][2] - 1) + Fitted(found[n])[2],
         intensity |-> ar[found[n][1]][found[n][2]]]] \o <<>>

\* a faulty variant of the rounding: to the nearest whole pixel
RoundHalf_whole(q) ==
  LET n == q \div 4
  IN IF q % 4 < 2 THEN 4 * n
     ELSE IF q % 4 > 2 THEN 4 * (n + 1)
     ELSE IF n % 2 = 0 THEN 4 * n ELSE 4 * (n + 1)

\* lines 118-119: np.round(v * 2) / 2, halves rounded to the even integer
RoundHalf(q) ==
  LET n == q \div 2
  IN IF q % 2 = 0 THEN 2 * n
     ELSE IF n % 2 = 0 THEN 2 * n ELSE 2 * (n + 1)

\* lines 114-119: the shift handed to the upsampler for the k-th maximum
xyShift(maxima, k) == <<RoundHalf(maxima[k].x), RoundHalf(maxima[k].y)>>

\* the record of DP.sub nearest to a shift, the first of them when several
\* are
Nearest(DP, shift) ==
  LET at == [x |-> shift[1], y |-> shift[2]]
  IN CHOOSE k \in DOMAIN DP.sub :
       \A j \in DOMAIN DP.sub :
          \/ PixelDist2(DP.sub[k], at) < PixelDist2(DP.sub[j], at)
          \/ PixelDist2(DP.sub[k], at) = PixelDist2(DP.sub[j], at) /\ k <= j

\* upsampled_correlation(ccc, upsample_factor, xyShift): the shift refined by
\* what the upsampled search finds near it, the shift itself when the
\* pattern records nothing
upsampled_correlation(DP, shift) ==
  IF DP.sub = <<>> THEN shift
  ELSE <<shift[1] + DP.sub[Nearest(DP, shift)].du,
         shift[2] + DP.sub[Nearest(DP, shift)].dv>>

\* a faulty variant of the refinement: the intensity taken anew
Refine_intensity(DP, maxima, k) ==
  LET subShift == upsampled_correlation(DP, xyShift(maxima, k))
  IN [x |-> subShift[1], y |-> subShift[2],
      intensity |-> maxima[k].intensity + 1]

\* lines 113-123: the refinement of the k-th maximum
Refine(DP, maxima, k) ==
  LET subShift == upsampled_correlation(DP, xyShift(maxima, k))
  IN [x |-> subShift[1], y |-> subShift[2], intensity |-> maxima[k].intensity]

\* lines 83-88, 92-97, 105-110: the call of get_maxima_2D in a mode, on the
\* surface of that mode and with the arguments of the running call;
\* subpixel is False in the mode none and True in the other two
Maxima(DP, mode) ==
  get_maxima_2D(CorrelationSurface(DP, mode, call.corrPower), call.sigma,
                call.edgeBoundary, minRelativeIntensity, minPeakSpacing,
                maxNumPeaks, mode # "none", DP.sub)

\* the maxima the extractor returns in a mode, before any refinement
Extracted(DP, mode) == Maxima(DP, mode)

\* lines 80-123: maxima_x, maxima_y, maxima_int for a recognised mode
DetectMaxima(DP, mode) ==
  IF mode = "none" THEN Maxima(DP, "none")
  ELSE IF mode = "poly" THEN Maxima(DP, "poly")
  ELSE LET maxima == Maxima(DP, "multicorr")
       IN [k \in 1 .. Len(maxima) |-> Refine(DP, maxima, k)]

\* a faulty variant of the upsampler's calls: one in the poly mode as well
UpsampleCalls_poly(DP, mode) ==
  IF mode = "none" THEN <<>>
  ELSE LET maxima == Maxima(DP, mode)
       IN [k \in 1 .. Len(maxima) |->
             [ipeak |-> k - 1, v |-> <<maxima[k].x, maxima[k].y>>,
              xyShift |-> xyShift(maxima, k)]]

\* lines 113-121: the calls of upsampled_correlation, one per ipeak
UpsampleCalls(DP, mode) ==
  IF mode # "multicorr" THEN <<>>
  ELSE LET maxima == Maxima(DP, "multicorr")
       IN [k \in 1 .. Len(maxima) |->
             [ipeak |-> k - 1, v |-> <<maxima[k].x, maxima[k].y>>,
              xyShift |-> xyShift(maxima, k)]]

\* PointList.add_tuple_of_nparrays((x, y, intensity)): rows appended
add_tuple_of_nparrays(rows, maxima) ==
  rows \o [k \in 1 .. Len(maxima) |->
             [c \in PeakCoords |->
                IF c = "qx" THEN maxima[k].x
                ELSE IF c = "qy" THEN maxima[k].y ELSE maxima[k].intensity]]

\* line 126: the columns of a PointList made by the detection
FK_coords == {"qx", "qy", "intensity"}

\* isinstance(peaks, PointList)
IsPointList(obj) == "coordinates" \in DOMAIN obj

\* a faulty variant of the failure: the subpixel assertion left out
FK_Error_unchecked(DP, mode, peaks, h) ==
  IF Raises(DP) THEN "ValueError"
  ELSE IF peaks # 0 /\ ~ IsPointList(h[peaks]) THEN "AssertionError"
  ELSE ""

\* lines 78-131: the exception find_Bragg_disks_single_DP_FK ends with, ""
\* when it returns
FK_Error(DP, mode, peaks, h) ==
  IF mode \notin SubpixelModes THEN "AssertionError"
  ELSE IF Raises(DP) THEN "ValueError"
  ELSE IF peaks # 0 /\ ~ IsPointList(h[peaks]) THEN "AssertionError"
  ELSE ""

\* lines 80-123: the routines called on the way to the maxima
FK_DetectWork(DP, mode) ==
  IF mode \notin SubpixelModes THEN <<>>
  ELSE (IF mode = "multicorr" THEN <<"fft2(DP)", "ifft2", "np.maximum">>
        ELSE <<"get_cross_correlation_fk", "np.maximum">>)
       \o <<"get_maxima_2D">>
       \o (IF Raises(DP) THEN <<>>
           ELSE [k \in 1 .. Len(UpsampleCalls(DP, mode)) |->
                   "upsampled_correlation"])

\* lines 78-136: every routine the call runs, in order
FK_Work(DP, mode, peaks, h, return_cc) ==
  FK_DetectWork(DP, mode)
  \o (IF FK_Error(DP, mode, peaks, h) # "" THEN <<>>
      ELSE (IF peaks = 0 THEN <<"PointList">> ELSE <<>>)
           \o <<"add_tuple_of_nparrays">>
           \o (IF return_cc THEN <<"gaussian_filter">> ELSE <<>>))

\* a faulty variant of the target: a new PointList whatever was supplied
FK_Peaks_new(peaks, h) == Len(h) + 1

\* lines 125-130: the PointList written, a new one when peaks is None
FK_Peaks(peaks, h) == IF peaks = 0 THEN Len(h) + 1 ELSE peaks

\* lines 125-131: the heap once the maxima are added
FK_Heap(DP, mode, peaks, h) ==
  IF FK_Peaks(peaks, h) \in DOMAIN h
  THEN [h EXCEPT ![FK_Peaks(peaks, h)].data =
          add_tuple_of_nparrays(@, DetectMaxima(DP, mode))]
  ELSE Append(h, [coordinates |-> FK_coords,
                  data |-> add_tuple_of_nparrays(<<>>, DetectMaxima(DP, mode))])

\* a faulty variant of the surface returned: cc as it is
ReturnedCC_raw(ar, sigma) == ar

\* line 134: the surface returned when return_cc is set
ReturnedCC(ar, sigma) == gaussian_filter(ar, sigma)

\* a faulty variant of the propagation: the failure of a pattern is dropped
Uncaught_skipped(e) == ""

\* lines 239-249, 304-319: no handler surrounds the call in the loops, so the
\* exception of a pattern's detection is the exception of the loop
Uncaught(e) == e

\* lines 78-136: what one call of find_Bragg_disks_single_DP_FK does to the
\* heap and to the histories
FK_Effects(DP, peaks, return_cc) ==
  /\ work' = work \o FK_Work(DP, subpixel, peaks, heap, return_cc)
  /\ IF subpixel \in SubpixelModes
     THEN /\ cc' = CorrelationSurface(DP, subpixel, call.corrPower)
          /\ upsampled' = upsampled \o
               (IF Raises(DP) THEN <<>> ELSE UpsampleCalls(DP, subpixel))
     ELSE UNCHANGED <<cc, upsampled>>
  /\ heap' = IF FK_Error(DP, subpixel, peaks, heap) = ""
             THEN FK_Heap(DP, subpixel, peaks, heap) ELSE heap

----------------------------------------------------------------------------
(* find_Bragg_disks *)

\* largest scan shape of a datacube
MaxR_Nx == 2
MaxR_Ny == 2

\* line 263: the default of maxNumPeaks
DefaultMaxNumPeaks == 70

\* the values tried for subpixel: the three modes and an unrecognised one
SubpixelValues == SubpixelModes \cup {"gauss"}

NoGrid == [id |-> 0, shape |-> <<0, 0>>, coords |-> {}, cells |-> <<>>]

\* line 296: the columns of the detected peaks
FindCoords == {"qx", "qy", "intensity"}

\* a faulty variant of the shape: the two scan axes swapped
FindShape_swapped(dc) == <<dc.R_Ny, dc.R_Nx>>

\* line 297: the shape handed to PointListArray
FindShape(dc) == <<dc.R_Nx, dc.R_Ny>>

\* PointListArray(coordinates, shape): a grid of new, empty PointLists
PointListArray(coordinates, shape) ==
  [id |-> 1, shape |-> shape, coords |-> coordinates,
   cells |-> [p \in Positions(shape) |-> CellRef(shape, p)]]

NewCells(coordinates, shape) ==
  [r \in 1 .. NumCells(shape) |-> [coordinates |-> coordinates, data |-> <<>>]]

\* line 309: the pattern read at (Rx, Ry)
PatternAt(rx, ry) == <<rx, ry>>

\* a faulty variant of the cell written: the two indices swapped
DetectCell_swapped(rx, ry) == <<ry, rx>>

\* line 319: the cell written at (Rx, Ry)
DetectCell(rx, ry) == <<rx, ry>>

\* lines 295-303: the grid is made, the probe transformed and the loops
\* entered
find_Bragg_disks_call ==
  /\ pc = "idle"
  /\ call.fn = "find_Bragg_disks"
  /\ pointlistarray.id = 0
  /\ pointlistarray' = PointListArray(FindCoords, FindShape(datacube))
  /\ heap' = NewCells(FindCoords, FindShape(datacube))
  /\ work' = work \o <<"PointListArray", "fft2(probe)">>
  /\ Rx' = 0
  /\ Ry' = 0
  /\ pc' = IF datacube.R_Nx * datacube.R_Ny > 0 THEN "detect" ELSE "find_return"
  /\ UNCHANGED <<err, datacube, subpixel, minRelativeIntensity, minPeakSpacing,
                 maxNumPeaks, i, deletemask, ret, pointlistarray0, heap0,
                 writeLog, call, cc, upsampled, result>>
  /\ UNCHANGED arrayVars

\* lines 304-319: detection at (Rx, Ry) by find_Bragg_disks_single_DP_FK
\* (lines 78-136), then the loops' step
find_Bragg_disks_detect ==
  /\ pc = "detect"
  /\ IF \/ PatternAt(Rx, Ry) \notin DOMAIN datacube.data
        \/ DetectCell(Rx, Ry) \notin DOMAIN pointlistarray.cells
     THEN /\ Raise("IndexError")
          /\ UNCHANGED <<heap, writeLog, Rx, Ry, cc, work, upsampled>>
     ELSE LET DP == datacube.data[PatternAt(Rx, Ry)]
              peaks == pointlistarray.cells[DetectCell(Rx, Ry)]
          IN /\ FK_Effects(DP, peaks, FALSE)
             /\ IF Uncaught(FK_Error(DP, subpixel, peaks, heap)) # ""
                THEN /\ Raise(FK_Error(DP, subpixel, peaks, heap))
                     /\ UNCHANGED <<writeLog, Rx, Ry>>
                ELSE /\ writeLog' = Append(writeLog,
                                           [pos |-> <<Rx, Ry>>, ref |-> peaks])
                     /\ err' = err
                     /\ IF HasNext(FindShape(datacube), Rx, Ry)
                        THEN /\ Rx' = NextPos(FindShape(datacube), Rx, Ry)[1]
                             /\ Ry' = NextPos(FindShape(datacube), Rx, Ry)[2]
                             /\ pc' = "detect"
                        ELSE /\ pc' = "find_return"
                             /\ UNCHANGED <<Rx, Ry>>
  /\ UNCHANGED <<datacube, subpixel, pointlistarray, minRelativeIntensity,
                 minPeakSpacing, maxNumPeaks, i, deletemask, ret,
                 pointlistarray0, heap0, call, result>>
  /\ UNCHANGED arrayVars

\* line 324: return peaks
find_Bragg_disks_return ==
  /\ pc = "find_return"
  /\ ret' = ReturnValue(pointlistarray)
  /\ pc' = "done"
  /\ UNCHANGED <<err, datacube, subpixel, pointlistarray, heap,
                 minRelativeIntensity, minPeakSpacing, maxNumPeaks, Rx, Ry, i,
                 deletemask, pointlistarray0, heap0, writeLog>>
  /\ UNCHANGED detectVars
  /\ UNCHANGED arrayVars

InitFind ==
  /\ pc = "idle"
  /\ err = ""
  /\ \E nx \in 1 .. MaxR_Nx, ny \in 1 .. MaxR_Ny :
       \E data \in [Positions(<<nx, ny>>) -> Patterns] :
         datacube = [R_Nx |-> nx, R_Ny |-> ny, data |-> data]
  /\ subpixel \in SubpixelValues
  /\ pointlistarray = NoGrid
  /\ heap = <<>>
  /\ minRelativeIntensity = PyFalse
  /\ minPeakSpacing = Num(1)
  /\ maxNumPeaks = Num(DefaultMaxNumPeaks)
  /\ Rx = 0
  /\ Ry = 0
  /\ i = 0
  /\ deletemask = <<>>
  /\ ret = 0
  /\ pointlistarray0 = NoGrid
  /\ heap0 = <<>>
  /\ writeLog = <<>>
  /\ call = [NoCall EXCEPT !.fn = "find_Bragg_disks"]
  /\ cc = <<>>
  /\ work = <<>>
  /\ upsampled = <<>>
  /\ result = NoResult
  /\ args = NoArgs
  /\ array = NoArray
  /\ group = NoGroup
  /\ out = NoOut

NextFind ==
  \/ find_Bragg_disks_call
  \/ find_Bragg_disks_detect
  \/ find_Bragg_disks_return

SpecFind == InitFind /\ [][NextFind]_vars

----------------------------------------------------------------------------
(* find_Bragg_disks_single_DP, find_Bragg_disks_single_DP_FK called alone *)

\* line 179: the probe kernel is transformed, then the FK function is called
find_Bragg_disks_single_DP ==
  /\ pc = "idle"
  /\ call.fn = "find_Bragg_disks_single_DP"
  /\ work' = work \o <<"fft2(probe)">>
  /\ pc' = "FK"
  /\ UNCHANGED <<err, datacube, subpixel, pointlistarray, heap,
                 minRelativeIntensity, minPeakSpacing, maxNumPeaks, Rx, Ry, i,
                 deletemask, ret, pointlistarray0, heap0, writeLog, call, cc,
                 upsampled, result>>
  /\ UNCHANGED arrayVars

\* a faulty variant of the value returned: the surface left out
FK_Result_peaks(peaks, return_cc, surface) ==
  [kind |-> "peaks", peaks |-> peaks, cc |-> <<>>, tuple |-> <<>>]

\* lines 133-136: peaks, or peaks and the surface when return_cc is set
FK_Result(peaks, return_cc, surface) ==
  IF return_cc
  THEN [kind |-> "peaks, cc", peaks |-> peaks, cc |-> surface, tuple |-> <<>>]
  ELSE [kind |-> "peaks", peaks |-> peaks, cc |-> <<>>, tuple |-> <<>>]

\* lines 78-136: find_Bragg_disks_single_DP_FK, called by the caller or by
\* find_Bragg_disks_single_DP
find_Bragg_disks_single_DP_FK ==
  /\ \/ pc = "FK"
     \/ pc = "idle" /\ call.fn = "find_Bragg_disks_single_DP_FK"
  /\ FK_Effects(call.DP, call.peaks, call.return_cc)
  /\ IF FK_Error(call.DP, subpixel, call.peaks, heap) # ""
     THEN /\ Raise(FK_Error(call.DP, subpixel, call.peaks, heap))
          /\ UNCHANGED result
     ELSE /\ result' = FK_Result(FK_Peaks(call.peaks, heap), call.return_cc,
                                 ReturnedCC(cc', call.sigma))
          /\ pc' = "done"
          /\ err' = err
  /\ UNCHANGED <<datacube, subpixel, pointlistarray, minRelativeIntensity,
                 minPeakSpacing, maxNumPeaks, Rx, Ry, i, deletemask, ret,
                 pointlistarray0, heap0, writeLog, call>>
  /\ UNCHANGED arrayVars

----------------------------------------------------------------------------
(* find_Bragg_disks_selected *)

\* numpy's index n along an axis of the given length: counted from the end
\* when negative
WrapIndex(n, length) == IF n < 0 THEN n + length ELSE n

\* a faulty variant of the pattern read: the two indices swapped
SelectedAt_swapped(rx, ry, k) ==
  <<WrapIndex(ry.at[k + 1], datacube.R_Nx),
    WrapIndex(rx.at[k + 1], datacube.R_Ny)>>

\* line 240: the scan position of datacube.data[Rx[i], Ry[i], :, :], out of
\* the datacube when an index is out of range
SelectedAt(rx, ry, k) ==
  <<WrapIndex(rx.at[k + 1], datacube.R_Nx),
    WrapIndex(ry.at[k + 1], datacube.R_Ny)>>

\* lines 231-235: len() of both arguments, their assertion, peaks = [], the
\* probe transformed
find_Bragg_disks_selected_call ==
  /\ pc = "idle"
  /\ call.fn = "find_Bragg_disks_selected"
  /\ IF call.Rx.isInt \/ call.Ry.isInt
     THEN /\ Raise("TypeError")
          /\ UNCHANGED <<work, i>>
     ELSE IF Len(call.Rx.at) # Len(call.Ry.at)
     THEN /\ Raise("AssertionError")
          /\ UNCHANGED <<work, i>>
     ELSE /\ work' = work \o <<"fft2(probe)">>
          /\ i' = 0
          /\ pc' = IF Len(call.Rx.at) > 0 THEN "selected" ELSE "selected_return"
          /\ err' = err
  /\ UNCHANGED <<datacube, subpixel, pointlistarray, heap,
                 minRelativeIntensity, minPeakSpacing, maxNumPeaks, Rx, Ry,
                 deletemask, ret, pointlistarray0, heap0, writeLog, call, cc,
                 upsampled, result>>
  /\ UNCHANGED arrayVars

\* lines 239-249: detection of the i-th selected pattern into a new PointList
\* that is appended to the list peaks (kept in result.tuple)
find_Bragg_disks_selected_detect ==
  /\ pc = "selected"
  /\ IF SelectedAt(call.Rx, call.Ry, i) \notin DOMAIN datacube.data
     THEN /\ Raise("IndexError")
          /\ UNCHANGED <<heap, cc, work, upsampled, result, i>>
     ELSE LET DP == datacube.data[SelectedAt(call.Rx, call.Ry, i)]
          IN /\ FK_Effects(DP, 0, FALSE)
             /\ IF Uncaught(FK_Error(DP, subpixel, 0, heap)) # ""
                THEN /\ Raise(FK_Error(DP, subpixel, 0, heap))
                     /\ UNCHANGED <<result, i>>
                ELSE /\ result' = [result EXCEPT
                                     !.tuple = Append(@, FK_Peaks(0, heap))]
                     /\ i' = i + 1
                     /\ pc' = IF i + 1 < Len(call.Rx.at)
                              THEN "selected" ELSE "selected_return"
                     /\ err' = err
  /\ UNCHANGED <<datacube, subpixel, pointlistarray, minRelativeIntensity,
                 minPeakSpacing, maxNumPeaks, Rx, Ry, deletemask, ret,
                 pointlistarray0, heap0, writeLog, call>>
  /\ UNCHANGED arrayVars

\* line 254: return tuple(peaks)
find_Bragg_disks_selected_return ==
  /\ pc = "selected_return"
  /\ result' = [result EXCEPT !.kind = "tuple"]
  /\ pc' = "done"
  /\ UNCHANGED <<err, datacube, subpixel, pointlistarray, heap,
                 minRelativeIntensity, minPeakSpacing, maxNumPeaks, Rx, Ry, i,
                 deletemask, ret, pointlistarray0, heap0, writeLog, call, cc,
                 work, upsampled>>
  /\ UNCHANGED arrayVars

----------------------------------------------------------------------------
(* The detection entry points, each called once on inputs of every kind *)

\* the scan shapes of the datacubes detection is run on
DetectShapes == {<<1, 1>>, <<1, 2>>, <<2, 1>>}

\* the datacubes: every pattern of a datacube has the shape (Q_Nx, Q_Ny)
DetectCubes ==
  UNION {{[R_Nx |-> shape[1], R_Ny |-> shape[2], data |-> data] :
            data \in {d \in [Positions(shape) -> DetectPatterns] :
                        \A p \in Positions(shape), q \in Positions(shape) :
                           Shape(d[p].data) = Shape(d[q].data)}} :
         shape \in DetectShapes}

\* the values tried for the spacing, the count, the edge boundary, the
\* relative intensity and sigma
DetectSpacingValues == {Num(1), Num(3)}
DetectNumPeaksValues == {Num(1), Num(DefaultMaxNumPeaks)}
EdgeBoundaryValues == {0, 1}
DetectRelIntensityValues == {Num(0), Frac(1, 2)}
SigmaValues == {0, 2}

\* the values tried for Rx and for Ry of find_Bragg_disks_selected
SelectedArgs ==
  {IntArg(0)}
    \cup {ListArg(ns) : ns \in UNION {[1 .. n -> -2 .. 1] : n \in 0 .. 2}}

\* the objects tried for peaks: None, a PointList with or without a row, and
\* a list that is no PointList
SuppliedHeaps ==
  {<<>>,
   <<[coordinates |-> FK_coords, data |-> <<>>]>>,
   <<[coordinates |-> FK_coords, data |-> <<Peak(<<0, 0>>, 1)>>]>>,
   <<[class |-> "list", data |-> <<Peak(<<0, 0>>, 1)>>]>>}

InitDetect ==
  /\ pc = "idle"
  /\ err = ""
  /\ subpixel \in SubpixelValues
  /\ pointlistarray = NoGrid
  /\ minRelativeIntensity \in DetectRelIntensityValues
  /\ minPeakSpacing \in DetectSpacingValues
  /\ maxNumPeaks \in DetectNumPeaksValues
  /\ Rx = 0
  /\ Ry = 0
  /\ i = 0
  /\ deletemask = <<>>
  /\ ret = 0
  /\ pointlistarray0 = NoGrid
  /\ writeLog = <<>>
  /\ cc = <<>>
  /\ work = <<>>
  /\ upsampled = <<>>
  /\ result = NoResult
  /\ \/ /\ datacube \in DetectCubes
        /\ heap = <<>>
        /\ \E p \in CorrPowerValues, eb \in EdgeBoundaryValues :
             call = [NoCall EXCEPT !.fn = "find_Bragg_disks", !.corrPower = p,
                                   !.edgeBoundary = eb]
     \/ /\ datacube \in {dc \in DetectCubes : dc.R_Nx * dc.R_Ny = 2}
        /\ heap = <<>>
        /\ minRelativeIntensity = Num(0)
        /\ minPeakSpacing = Num(1)
        /\ maxNumPeaks = Num(DefaultMaxNumPeaks)
        /\ \E rx \in SelectedArgs, ry \in SelectedArgs,
              eb \in EdgeBoundaryValues :
             call = [NoCall EXCEPT !.fn = "find_Bragg_disks_selected",
                                   !.Rx = rx, !.Ry = ry, !.edgeBoundary = eb]
     \/ /\ datacube = NoCube
        /\ heap = <<>>
        /\ \E DP \in DetectPatterns, p \in CorrPowerValues, s \in SigmaValues,
              r \in BOOLEAN, eb \in EdgeBoundaryValues :
             call = [NoCall EXCEPT !.fn = "find_Bragg_disks_single_DP",
                                   !.DP = DP, !.corrPower = p, !.sigma = s,
                                   !.return_cc = r, !.edgeBoundary = eb]
     \/ /\ datacube = NoCube
        /\ heap \in SuppliedHeaps
        /\ \E DP \in DetectPatterns, p \in CorrPowerValues, s \in SigmaValues,
              r \in BOOLEAN, eb \in EdgeBoundaryValues :
             call = [NoCall EXCEPT !.fn = "find_Bragg_disks_single_DP_FK",
                                   !.DP = DP, !.corrPower = p, !.sigma = s,
                                   !.return_cc = r, !.peaks = Len(heap),
                                   !.edgeBoundary = eb]
  /\ heap0 = heap
  /\ args = NoArgs
  /\ array = NoArray
  /\ group = NoGroup
  /\ out = NoOut

NextDetect ==
  \/ find_Bragg_disks_call
  \/ find_Bragg_disks_detect
  \/ find_Bragg_disks_return
  \/ find_Bragg_disks_single_DP
  \/ find_Bragg_disks_single_DP_FK
  \/ find_Bragg_disks_selected_call
  \/ find_Bragg_disks_selected_detect
  \/ find_Bragg_disks_selected_return

SpecDetect == InitDetect /\ [][NextDetect]_vars

----------------------------------------------------------------------------
(* Detection followed by thresholding: the grid find_Bragg_disks returned  *)
(* is the pointlistarray argument of threshold_Braggpeaks                  *)

\* line 327: threshold_Braggpeaks is called on the grid detection returned
threshold_Braggpeaks_detected ==
  /\ pc = "done"
  /\ call.fn = "find_Bragg_disks"
  /\ call' = [call EXCEPT !.fn = "threshold_Braggpeaks"]
  /\ pc' = "idle"
  /\ Rx' = 0
  /\ Ry' = 0
  /\ ret' = 0
  /\ pointlistarray0' = pointlistarray
  /\ heap0' = heap
  /\ UNCHANGED <<err, datacube, subpixel, pointlistarray, heap,
                 minRelativeIntensity, minPeakSpacing, maxNumPeaks, i,
                 deletemask, writeLog, cc, work, upsampled, result>>
  /\ UNCHANGED arrayVars

InitPipeline ==
  /\ InitDetect
  /\ call.fn = "find_Bragg_disks"

NextPipeline ==
  \/ find_Bragg_disks_call
  \/ find_Bragg_disks_detect
  \/ find_Bragg_disks_return
  \/ threshold_Braggpeaks_detected
  \/ threshold_Braggpeaks_call
  \/ threshold_sort
  \/ threshold_intensity
  \/ threshold_sweep_init
  \/ threshold_sweep_iter
  \/ threshold_sweep_remove
  \/ threshold_truncate
  \/ threshold_return

SpecPipeline == InitPipeline /\ [][NextPipeline]_vars

----------------------------------------------------------------------------
(* Notions the properties are stated with *)

Refs == DOMAIN heap

Rows(r) == heap[r].data
RowsAtCall(r) == heap0[r].data

Dist2(a, b) == (a["qx"] - b["qx"]) * (a["qx"] - b["qx"])
               + (a["qy"] - b["qy"]) * (a["qy"] - b["qy"])

Count(row, rows) == Cardinality({k \in 1 .. Len(rows) : rows[k] = row})

RowSet(rows) == {rows[k] : k \in 1 .. Len(rows)}

NonIncreasing(rows) ==
  \A k \in 1 .. Len(rows) - 1 : rows[k]["intensity"] >= rows[k + 1]["intensity"]

\* the rows of one intensity, in their order
RECURSIVE OfIntensity(_, _)
OfIntensity(rows, v) ==
  IF rows = <<>> THEN <<>>
  ELSE IF Head(rows)["intensity"] = v
       THEN <<Head(rows)>> \o OfIntensity(Tail(rows), v)
       ELSE OfIntensity(Tail(rows), v)

\* a is b with some rows left out
RECURSIVE IsSubSeq(_, _)
IsSubSeq(a, b) ==
  IF a = <<>> THEN TRUE
  ELSE IF b = <<>> THEN FALSE
  ELSE IF Head(a) = Head(b) THEN IsSubSeq(Tail(a), Tail(b))
  ELSE IsSubSeq(a, Tail(b))

\* intensity below minRelativeIntensity times the maximum mx
BelowThreshold(row, mx) ==
  row["intensity"] * minRelativeIntensity.den < minRelativeIntensity.val * mx

MaxIntensity(rows) ==
  CHOOSE v \in {rows[k]["intensity"] : k \in 1 .. Len(rows)} :
    \A k \in 1 .. Len(rows) : rows[k]["intensity"] <= v

\* a squared distance of two rows, in quarter pixels squared, is below or
\* above minPeakSpacing squared
Nearer(d2) ==
  d2 * minPeakSpacing.den * minPeakSpacing.den
    < 16 * minPeakSpacing.val * minPeakSpacing.val

Farther(d2) ==
  d2 * minPeakSpacing.den * minPeakSpacing.den
    > 16 * minPeakSpacing.val * minPeakSpacing.val

HasPeakSchema(pla) == {"qx", "qy", "intensity"} \subseteq pla.coords

----------------------------------------------------------------------------
(* C1 *)

TwoPeakCell(r) ==
  /\ Len(RowsAtCall(r)) = 2
  /\ RowsAtCall(r)[1]["intensity"] # RowsAtCall(r)[2]["intensity"]

Higher(r) ==
  IF RowsAtCall(r)[1]["intensity"] > RowsAtCall(r)[2]["intensity"]
  THEN RowsAtCall(r)[1] ELSE RowsAtCall(r)[2]

Lower(r) ==
  IF RowsAtCall(r)[1]["intensity"] > RowsAtCall(r)[2]["intensity"]
  THEN RowsAtCall(r)[2] ELSE RowsAtCall(r)[1]

C1_Case(r) ==
  /\ pc = "done"
  /\ HasPeakSchema(pointlistarray0)
  /\ ~minPeakSpacing.isFalse
  /\ ~maxNumPeaks.isFalse
  /\ maxNumPeaks.val >= 2
  /\ TwoPeakCell(r)
  /\ minRelativeIntensity.isFalse
     \/ ~BelowThreshold(Lower(r), Higher(r)["intensity"])

\* C1: after threshold_Braggpeaks with a spacing given and maxNumPeaks >= 2,
\* a cell that held two peaks of different intensity, both above the
\* intensity threshold, holds only the higher one if their distance is
\* strictly below minPeakSpacing, and both if it is above minPeakSpacing.
C1_TwoPeakSpacing ==
  \A r \in Refs :
    C1_Case(r) =>
      /\ Nearer(Dist2(Higher(r), Lower(r))) => Rows(r) = <<Higher(r)>>
      /\ Farther(Dist2(Higher(r), Lower(r)))
           => Rows(r) = <<Higher(r), Lower(r)>>

C1_Witness ==
  \E r \in Refs :
    /\ C1_Case(r)
    /\ RowsAtCall(r)[1] = Lower(r)
    /\ Dist2(Higher(r), Lower(r)) > 0
    /\ Nearer(Dist2(Higher(r), Lower(r)))
    /\ Rows(r) = <<Higher(r)>>

----------------------------------------------------------------------------
(* C2 *)

\* C2: an iteration of the spacing sweep at row i marks a row j only if
\* j > i and row i is itself unmarked when it is processed; it marks neither
\* row i nor an earlier row, so row 0 is never marked, and a marked row
\* suppresses no later row.
C2_SweepAsymmetry ==
  [][(pc = "sweep" /\ pc' = "sweep" /\ i' = i + 1) =>
       /\ DOMAIN deletemask' = DOMAIN deletemask
       /\ \A j \in DOMAIN deletemask :
            /\ deletemask[j] => deletemask'[j]
            /\ (deletemask'[j] /\ ~deletemask[j]) =>
                 /\ j > i + 1
                 /\ ~deletemask[i + 1]
       /\ deletemask' # <<>> => ~deletemask'[1]]_vars

C2_Witness ==
  /\ pc = "sweep"
  /\ i = 3
  /\ deletemask = <<FALSE, TRUE, FALSE>>
  /\ Nearer(Dist2(Rows(pointlist)[1], Rows(pointlist)[2]))
  /\ Nearer(Dist2(Rows(pointlist)[2], Rows(pointlist)[3]))

----------------------------------------------------------------------------
(* C3 *)

\* C3: with minRelativeIntensity given, the intensity step leaves in the cell
\* exactly the rows it held at the call whose intensity is not below
\* minRelativeIntensity times the cell's maximum intensity: every such row
\* is kept, as often as it occurred, and every row below is gone; and no
\* cell of the returned grid holds a row below its threshold.
C3_IntensityThreshold ==
  /\ (pc = "spacing" /\ ~minRelativeIntensity.isFalse) =>
       LET before == RowsAtCall(pointlist)
           mx == MaxIntensity(before)
       IN /\ RowSet(Rows(pointlist)) \subseteq RowSet(before)
          /\ \A row \in RowSet(before) :
               Count(row, Rows(pointlist)) =
                 IF BelowThreshold(row, mx) THEN 0 ELSE Count(row, before)
  /\ (pc = "done" /\ ~minRelativeIntensity.isFalse) =>
       \A r \in Refs : \A row \in RowSet(Rows(r)) :
         ~BelowThreshold(row, MaxIntensity(RowsAtCall(r)))

C3_Witness ==
  /\ pc = "spacing"
  /\ ~minRelativeIntensity.isFalse
  /\ Len(RowsAtCall(pointlist)) = 3
  /\ Len(Rows(pointlist)) = 2
  /\ \E k \in 1 .. 3 :
       BelowThreshold(RowsAtCall(pointlist)[k],
                      MaxIntensity(RowsAtCall(pointlist)))

----------------------------------------------------------------------------
(* C4 *)

\* C4: with maxNumPeaks given, the truncation step leaves at most maxNumPeaks
\* rows in the cell; if more rows had survived the earlier steps it leaves
\* exactly the first maxNumPeaks of them, which are in descending order and
\* no less intense than any row dropped, with a mask as long as the rows
\* then in the cell; and every cell of the returned grid has at most
\* maxNumPeaks rows.
C4_Truncation ==
  /\ []((pc = "done" /\ ~maxNumPeaks.isFalse) =>
          \A r \in Refs : Len(Rows(r)) <= maxNumPeaks.val)
  /\ [][(pc = "truncate" /\ ~maxNumPeaks.isFalse) =>
          LET before == heap[pointlist].data
              after == heap'[pointlist].data
          IN /\ Len(after) <= maxNumPeaks.val
             /\ NonIncreasing(after)
             /\ Len(before) <= maxNumPeaks.val => after = before
             /\ Len(before) > maxNumPeaks.val =>
                  /\ after = SubSeq(before, 1, maxNumPeaks.val)
                  /\ Len(deletemask') = Len(before)
                  /\ \A a \in 1 .. Len(after), b \in 1 .. Len(before) :
                       b > maxNumPeaks.val =>
                         after[a]["intensity"] >= before[b]["intensity"]]_vars

C4_Witness ==
  /\ pc = "return"
  /\ maxNumPeaks = Num(1)
  /\ minPeakSpacing.isFalse
  /\ ~minRelativeIntensity.isFalse
  /\ \E r \in Refs :
       /\ Len(RowsAtCall(r)) = 3
       /\ Len(Rows(r)) = 1
       /\ pointlist = r
  /\ deletemask = <<FALSE, TRUE>>

----------------------------------------------------------------------------
(* C5 *)

PairwiseSpaced(rows) ==
  \A a, b \in 1 .. Len(rows) : a < b => ~ Nearer(Dist2(rows[a], rows[b]))

\* how many rows of the cell the intensity step is to leave
KeptByIntensity(r) ==
  IF minRelativeIntensity.isFalse THEN Len(RowsAtCall(r))
  ELSE Cardinality({k \in 1 .. Len(RowsAtCall(r)) :
                      ~BelowThreshold(RowsAtCall(r)[k],
                                      MaxIntensity(RowsAtCall(r)))})

\* C5: each filter is applied exactly when its own parameter is not False.
\* After the intensity step the cell has lost the rows below the threshold
\* if and only if minRelativeIntensity is given; after the spacing step its
\* rows are pairwise at least minPeakSpacing apart if minPeakSpacing is
\* given, and are all those the intensity step left if it is False; the
\* returned cells hold at most maxNumPeaks rows if maxNumPeaks is given.
C5_IndependentToggles ==
  /\ pc = "spacing" => Len(Rows(pointlist)) = KeptByIntensity(pointlist)
  /\ pc = "truncate" =>
       IF minPeakSpacing.isFalse
       THEN Len(Rows(pointlist)) = KeptByIntensity(pointlist)
       ELSE PairwiseSpaced(Rows(pointlist))
  /\ pc = "done" =>
       \A r \in Refs :
         IF maxNumPeaks.isFalse
         THEN minPeakSpacing.isFalse => Len(Rows(r)) = KeptByIntensity(r)
         ELSE Len(Rows(r)) <= maxNumPeaks.val

----------------------------------------------------------------------------
(* C6 *)

\* C6: on a grid lacking one of the columns qx, qy, intensity the call ends
\* in an AssertionError, and no PointList has been sorted or has lost a row:
\* grid and rows are as they were passed in, and nothing is returned.
C6_SchemaAssertion ==
  ~HasPeakSchema(pointlistarray0) =>
    /\ pc \in {"idle", "error"}
    /\ pc = "error" => err = "AssertionError"
    /\ heap = heap0
    /\ pointlistarray = pointlistarray0
    /\ ret = 0

C6_Witness ==
  /\ ~HasPeakSchema(pointlistarray0)
  /\ pc = "error"
  /\ "intensity" \in pointlistarray0.coords
  /\ \E r \in Refs : ~NonIncreasing(RowsAtCall(r))

----------------------------------------------------------------------------
(* C7 *)

\* C7: in the returned grid the rows of every cell are in non-increasing
\* intensity order, and the rows of any one intensity stand in the order
\* they had among themselves at the call.
C7_StableDescending ==
  pc = "done" =>
    \A r \in Refs :
      /\ NonIncreasing(Rows(r))
      /\ \A v \in {RowsAtCall(r)[k]["intensity"] : k \in 1 .. Len(RowsAtCall(r))} :
           IsSubSeq(OfIntensity(Rows(r), v), OfIntensity(RowsAtCall(r), v))

C7_Witness ==
  /\ pc = "done"
  /\ \E r \in Refs :
       /\ Len(Rows(r)) = 3
       /\ ~NonIncreasing(RowsAtCall(r))
       /\ Rows(r)[1]["intensity"] = Rows(r)[2]["intensity"]
       /\ Rows(r)[1] # Rows(r)[2]

----------------------------------------------------------------------------
(* C8 *)

\* C8: threshold_Braggpeaks returns the grid it was given: the reference
\* returned is that of the grid passed in, and the grid's shape, columns and
\* the PointList held by each cell are never changed; only rows change.
C8_InPlace ==
  /\ pointlistarray = pointlistarray0
  /\ DOMAIN heap = DOMAIN heap0
  /\ pc = "done" => ret = pointlistarray0.id
  /\ pc # "done" => ret = 0

C8_Witness ==
  /\ pc = "done"
  /\ ret = pointlistarray0.id
  /\ NumCells(pointlistarray.shape) = 2
  /\ \E r \in Refs : Len(Rows(r)) < Len(RowsAtCall(r))
  /\ \E r \in Refs : Rows(r) # <<>> /\ Rows(r) = RowsAtCall(r)

----------------------------------------------------------------------------
(* C9 *)

\* C9: the grid find_Bragg_disks makes and returns has the scan shape
\* (R_Nx, R_Ny) of the datacube and one PointList per scan position (Rx, Ry),
\* R_Nx * R_Ny in all, each with the columns qx, qy, intensity, also where
\* no peak was found.
C9_GridShape ==
  pointlistarray.id # 0 =>
    LET shape == <<datacube.R_Nx, datacube.R_Ny>>
    IN /\ pointlistarray.shape = shape
       /\ DOMAIN pointlistarray.cells = Positions(shape)
       /\ Cardinality({pointlistarray.cells[p] : p \in Positions(shape)})
            = datacube.R_Nx * datacube.R_Ny
       /\ \A p \in Positions(shape) :
            /\ pointlistarray.cells[p] \in DOMAIN heap
            /\ heap[pointlistarray.cells[p]].coordinates
                 = {"qx", "qy", "intensity"}
            /\ \A k \in 1 .. Len(Rows(pointlistarray.cells[p])) :
                 DOMAIN Rows(pointlistarray.cells[p])[k]
                   = {"qx", "qy", "intensity"}
       /\ pc = "done" => ret = pointlistarray.id

C9_Witness ==
  /\ pc = "done"
  /\ ret = pointlistarray.id
  /\ datacube.R_Nx = 1
  /\ datacube.R_Ny = 2
  /\ Rows(pointlistarray.cells[<<0, 0>>]) = <<>>
  /\ Rows(pointlistarray.cells[<<0, 1>>]) # <<>>

----------------------------------------------------------------------------
(* C10 *)

\* C10: the detection writes of find_Bragg_disks come in row-major order of
\* the scan positions (Rx outer, Ry inner), one per position; the write for
\* a position goes to that position's own cell; a cell not yet written is
\* empty and a written cell holds exactly what detection found in its own
\* pattern; and the grid is returned only when every cell has been written.
C10_RowMajorWrites ==
  pointlistarray.id # 0 =>
    LET shape == <<datacube.R_Nx, datacube.R_Ny>>
    IN /\ Len(writeLog) <= NumCells(shape)
       /\ \A k \in 1 .. Len(writeLog) :
            /\ writeLog[k].pos = <<(k - 1) \div datacube.R_Ny,
                                   (k - 1) % datacube.R_Ny>>
            /\ writeLog[k].ref = pointlistarray.cells[writeLog[k].pos]
       /\ pc = "detect" => <<Rx, Ry>> = <<Len(writeLog) \div datacube.R_Ny,
                                         Len(writeLog) % datacube.R_Ny>>
       /\ \A p \in Positions(shape) :
            Rows(pointlistarray.cells[p]) =
              IF \E k \in 1 .. Len(writeLog) : writeLog[k].pos = p
              THEN add_tuple_of_nparrays(<<>>,
                     DetectMaxima(datacube.data[p], subpixel))
              ELSE <<>>
       /\ (pc = "done" \/ ret # 0) => Len(writeLog) = NumCells(shape)

C10_Witness ==
  /\ pc = "done"
  /\ datacube.R_Nx = 2
  /\ datacube.R_Ny = 2
  /\ Len(writeLog) = 4
  /\ writeLog[2].pos = <<0, 1>>
  /\ writeLog[3].pos = <<1, 0>>
  /\ Rows(pointlistarray.cells[<<0, 1>>]) # Rows(pointlistarray.cells[<<1, 0>>])

----------------------------------------------------------------------------
(* Notions the detection properties are stated with *)

\* the numerical routines of the correlation, the maxima search included
CorrelationWork ==
  {"fft2(probe)", "fft2(DP)", "get_cross_correlation_fk", "ifft2",
   "np.maximum", "get_maxima_2D", "upsampled_correlation", "gaussian_filter"}

Done(op) == \E k \in 1 .. Len(work) : work[k] = op

\* no PointList holds a row it did not hold when the entry point was called
NoRowsWritten ==
  \A r \in DOMAIN heap :
     \/ ~ IsPointList(heap[r])
     \/ heap[r].data = <<>>
     \/ r \in DOMAIN heap0 /\ heap[r].data = heap0[r].data

\* the positions the entry point called is to detect at
NumPositions ==
  IF call.fn = "find_Bragg_disks" THEN datacube.R_Nx * datacube.R_Ny
  ELSE IF call.fn = "find_Bragg_disks_selected"
  THEN (IF call.Rx.isInt THEN 1 ELSE Len(call.Rx.at))
  ELSE 1

\* C11 as stated: when an entry point has failed on an unrecognised subpixel
\* value, no routine of the correlation has run, the transform of the probe
\* included, and no PointList has been written.
C11_NoWorkBeforeFailure ==
  (subpixel \notin SubpixelModes /\ pc = "error")
    => /\ \A op \in CorrelationWork : ~ Done(op)
       /\ NoRowsWritten

\* C11 amended: with an unrecognised subpixel value the only work ever done
\* is what the wrappers do before the first pattern (the grid made, the probe
\* transformed); no pattern is transformed, correlated or searched, no
\* PointList is written, and the call returns only when it had no position
\* to detect at.
C11_FailsAtFirstPattern ==
  subpixel \notin SubpixelModes
    => /\ \A op \in CorrelationWork \ {"fft2(probe)"} : ~ Done(op)
       /\ ~ Done("add_tuple_of_nparrays")
       /\ NoRowsWritten
       /\ pc = "done" => NumPositions = 0
       /\ (pc = "error" /\ err = "AssertionError"
             /\ call.fn # "find_Bragg_disks_single_DP_FK"
             /\ Len(call.Rx.at) = Len(call.Ry.at))
            => Done("fft2(probe)")

C11_Witness ==
  /\ call.fn = "find_Bragg_disks"
  /\ subpixel \notin SubpixelModes
  /\ pc = "error"
  /\ err = "AssertionError"
  /\ work = <<"PointListArray", "fft2(probe)">>
  /\ DOMAIN heap # {}

\* the detection of a pattern fails whatever PointList it is to write
Failing(DP) == subpixel \notin SubpixelModes \/ Raises(DP)

\* the k-th selected position (from 0) lies in the scan, counted from the
\* start or, when negative, from the end
InScan(k) ==
  /\ call.Rx.at[k + 1] \in -datacube.R_Nx .. datacube.R_Nx - 1
  /\ call.Ry.at[k + 1] \in -datacube.R_Ny .. datacube.R_Ny - 1

\* the pattern at the k-th selected position, which lies in the scan
SelectedPattern(k) ==
  datacube.data[<<call.Rx.at[k + 1] % datacube.R_Nx,
                  call.Ry.at[k + 1] % datacube.R_Ny>>]

\* C12: in find_Bragg_disks and find_Bragg_disks_selected the patterns
\* detected so far never include a failing one; when the call has failed it
\* stands at the first position not yet detected, the PointList of that
\* position and of every later one holds no row (the selected variant has
\* made no PointList for them), and the call returns only when every
\* position was detected.  A failed call of find_Bragg_disks_single_DP_FK
\* leaves the PointList it was given as it was.
C12_FailureStopsTheScan ==
  /\ (call.fn = "find_Bragg_disks" /\ pointlistarray.id # 0) =>
       LET shape == <<datacube.R_Nx, datacube.R_Ny>>
           n == Len(writeLog)
       IN /\ \A k \in 0 .. n - 1 : ~ Failing(datacube.data[RowMajor(shape, k)])
          /\ \A k \in n .. NumCells(shape) - 1 :
               Rows(pointlistarray.cells[RowMajor(shape, k)]) = <<>>
          /\ pc = "error" =>
               /\ n < NumCells(shape)
               /\ <<Rx, Ry>> = RowMajor(shape, n)
               /\ Failing(datacube.data[<<Rx, Ry>>])
               /\ err # ""
          /\ pc = "done" => n = NumCells(shape)
  /\ (call.fn = "find_Bragg_disks_selected" /\ ~ call.Rx.isInt
        /\ ~ call.Ry.isInt) =>
       LET n == Len(result.tuple)
       IN /\ n = Len(heap)
          /\ n <= Len(call.Rx.at)
          /\ \A k \in 0 .. n - 1 :
               /\ InScan(k)
               /\ ~ Failing(SelectedPattern(k))
          /\ (pc = "error" /\ Len(call.Rx.at) = Len(call.Ry.at)) =>
               /\ n < Len(call.Rx.at)
               /\ i = n
               /\ IF InScan(n)
                  THEN /\ Failing(SelectedPattern(n))
                       /\ err \in {"AssertionError", "ValueError"}
                  ELSE err = "IndexError"
          /\ (n < Len(call.Rx.at) /\ Len(call.Rx.at) = Len(call.Ry.at)
                /\ pc \notin {"idle", "selected"})
               => /\ pc = "error"
                  /\ ~ InScan(n) \/ Failing(SelectedPattern(n))
          /\ pc = "done" => n = Len(call.Rx.at)
  /\ (call.fn = "find_Bragg_disks_single_DP_FK" /\ pc = "error") =>
       heap = heap0

C12_Witness ==
  /\ call.fn = "find_Bragg_disks_selected"
  /\ subpixel = "poly"
  /\ Len(call.Rx.at) = 2
  /\ Len(call.Ry.at) = 2
  /\ call.Rx.at[1] < 0 \/ call.Ry.at[1] < 0
  /\ pc = "error"
  /\ err = "ValueError"
  /\ i = 1
  /\ Len(result.tuple) = 1
  /\ Rows(result.tuple[1]) # <<>>
  /\ Len(heap) = 1

\* a single pattern is detected by one of the two single-pattern entry points
SinglePattern ==
  call.fn \in {"find_Bragg_disks_single_DP", "find_Bragg_disks_single_DP_FK"}

\* the call of find_Bragg_disks_single_DP_FK has got past the maxima search
Searched ==
  /\ SinglePattern
  /\ pc \in {"done", "error"}
  /\ subpixel \in SubpixelModes
  /\ ~ Raises(call.DP)

\* the rows a finished single-pattern call has added to its PointList
Added ==
  LET before == IF call.peaks = 0 THEN 0 ELSE Len(heap0[call.peaks].data)
  IN SubSeq(Rows(result.peaks), before + 1, Len(Rows(result.peaks)))

CountOp(op) == Cardinality({k \in 1 .. Len(work) : work[k] = op})

\* C13: in the multicorr mode upsampled_correlation is called once for each
\* maximum get_maxima_2D returned, in their order, and never in the modes
\* none and poly; the rows a multicorr call adds are as many as the maxima
\* returned and carry their intensities in the same order.
C13_UpsampleOncePerMaximum ==
  /\ (SinglePattern /\ ~ Searched) => upsampled = <<>>
  /\ Searched =>
       LET maxima == Extracted(call.DP, subpixel)
       IN IF subpixel = "multicorr"
          THEN /\ Len(upsampled) = Len(maxima)
               /\ CountOp("upsampled_correlation") = Len(maxima)
               /\ \A k \in 1 .. Len(maxima) :
                    /\ upsampled[k].ipeak = k - 1
                    /\ upsampled[k].v = <<maxima[k].x, maxima[k].y>>
               /\ pc = "done" =>
                    /\ Len(Added) = Len(maxima)
                    /\ \A k \in 1 .. Len(maxima) :
                         Added[k]["intensity"] = maxima[k].intensity
          ELSE /\ upsampled = <<>>
               /\ CountOp("upsampled_correlation") = 0

C13_Witness ==
  /\ call.fn = "find_Bragg_disks_single_DP_FK"
  /\ subpixel = "multicorr"
  /\ pc = "done"
  /\ Len(upsampled) = 2
  /\ Len(Added) = 2
  /\ Added[1]["intensity"] # Added[2]["intensity"]
  /\ Added[1]["qx"] # Extracted(call.DP, subpixel)[1].x

\* C14: every shift handed to upsampled_correlation is, in both coordinates,
\* a whole number of half pixels at most a quarter pixel from the extractor's
\* estimate, the even half-pixel count when the estimate lies midway.
\* (Lengths are in quarter pixels: a half pixel is 2.)
C14_HalfPixelShift ==
  \A k \in 1 .. Len(upsampled) :
     \A c \in 1 .. 2 :
        LET v == upsampled[k].v[c]
            s == upsampled[k].xyShift[c]
        IN /\ s % 2 = 0
           /\ Abs(s - v) <= 1
           /\ Abs(s - v) = 1 => (s \div 2) % 2 = 0

C14_Witness ==
  /\ pc = "done"
  /\ \E k \in 1 .. Len(upsampled) :
        /\ upsampled[k].xyShift[1] = upsampled[k].v[1] - 1
        /\ upsampled[k].xyShift[2] = upsampled[k].v[2] + 1
  /\ \E k \in 1 .. Len(upsampled) :
        /\ upsampled[k].v[1] % 4 = 2
        /\ upsampled[k].xyShift = upsampled[k].v

\* a pixel of a surface that lies above each of its neighbours, the
\* diagonal ones included
IsLocalMaximum(ar, a, b) ==
  \A a2 \in DOMAIN ar, b2 \in DOMAIN ar[a] :
     (<<a2, b2>> # <<a, b>> /\ Abs(a2 - a) <= 1 /\ Abs(b2 - b) <= 1)
       => ar[a2][b2] < ar[a][b]

\* the local maxima of a surface that lie at least edgeBoundary pixels from
\* each of its edges
MaximaInside(ar) ==
  {p \in (DOMAIN ar) \X (DOMAIN ar[1]) :
     /\ IsLocalMaximum(ar, p[1], p[2])
     /\ p[1] > call.edgeBoundary
     /\ p[1] <= Len(ar) - call.edgeBoundary
     /\ p[2] > call.edgeBoundary
     /\ p[2] <= Len(ar[1]) - call.edgeBoundary}

\* those of them that reach minRelativeIntensity times the brightest of them
LeftByEdgeAndIntensity(ar) ==
  {p \in MaximaInside(ar) :
     \A q \in MaximaInside(ar) :
        ar[p[1]][p[2]] * minRelativeIntensity.den
          >= minRelativeIntensity.val * ar[q[1]][q[2]]}

SurfaceShape ==
  IF SinglePattern THEN Shape(call.DP.data)
  ELSE Shape(datacube.data[<<0, 0>>].data)

\* C16: the surface handed to get_maxima_2D, in each of the three modes and
\* at each corrPower (0, 1/2 and 1 are run), has the shape of the
\* diffraction pattern and no negative value.
C16_SurfaceNonNegative ==
  cc # <<>> =>
    /\ Shape(cc) = SurfaceShape
    /\ \A a \in DOMAIN cc :
         /\ Len(cc[a]) = SurfaceShape[2]
         /\ \A b \in DOMAIN cc[a] : cc[a][b] >= 0

C16_Witness ==
  /\ SinglePattern
  /\ subpixel = "multicorr"
  /\ call.corrPower = Frac(1, 2)
  /\ Shape(cc) = <<2, 4>>
  /\ \E a \in DOMAIN cc : \E b \in DOMAIN cc[a] :
        /\ cc[a][b] = 0
        /\ CrossCorrelation(call.DP, call.corrPower)[a][b] < 0
  /\ \E a \in DOMAIN cc : \E b \in DOMAIN cc[a] : cc[a][b] > 0

\* the rows of a PointList that a mask does not mark, whole and in order
Unmasked(rows, mask) ==
  LET keep == SelectSeq([k \in 1 .. Len(rows) |-> k], LAMBDA k : ~ mask[k])
  IN [n \in 1 .. Len(keep) |-> rows[keep[n]]]

\* a step of threshold_Braggpeaks that calls remove_points with a mask
RemovesWith(mask) ==
  /\ Len(mask) = Len(heap[pointlist].data)
  /\ heap'[pointlist].data = Unmasked(heap[pointlist].data, mask)
  /\ \A r \in DOMAIN heap : r # pointlist => heap'[r] = heap[r]
  /\ DOMAIN heap' = DOMAIN heap

\* every column of every PointList is as long as the list
ColumnsAligned ==
  \A r \in DOMAIN heap :
     /\ \A k \in 1 .. Len(heap[r].data) :
          DOMAIN heap[r].data[k] = heap[r].coordinates
     /\ \A c \in heap[r].coordinates :
          Len(Column(heap[r].data, c)) = Len(heap[r].data)

\* C17: whatever detection has appended and threshold_Braggpeaks has removed,
\* the columns qx, qy and intensity of every PointList are equally long; and
\* each mask threshold_Braggpeaks hands to remove_points is as long as the
\* cell has rows at that moment, the rows left being the unmasked ones, whole
\* and in order, and no other cell touched.
C17_ColumnsInLockstep ==
  /\ [](ColumnsAligned
        /\ \A r \in DOMAIN heap : heap[r].coordinates = {"qx", "qy", "intensity"})
  /\ [][/\ (pc = "intensity" /\ pc' = "spacing"
              /\ IntensityEnabled(minRelativeIntensity, minPeakSpacing,
                                  maxNumPeaks))
             => RemovesWith(deletemask')
        /\ (pc = "sweep" /\ pc' = "truncate") => RemovesWith(deletemask)
        /\ (pc = "truncate" /\ pc' # "truncate"
              /\ TruncateEnabled(minRelativeIntensity, minPeakSpacing,
                                 maxNumPeaks)
              /\ maxNumPeaks.val < Len(heap[pointlist].data))
             => RemovesWith(deletemask')]_vars

C17_Witness ==
  /\ call.fn = "threshold_Braggpeaks"
  /\ pc = "done"
  /\ \E r \in DOMAIN heap : Len(heap[r].data) = 1 /\ Len(heap0[r].data) = 2
  /\ \E r \in DOMAIN heap : heap[r].data # <<>> /\ heap[r].data = heap0[r].data
  /\ Len(deletemask) > 0

\* C18: find_Bragg_disks_selected returns a tuple with one PointList for each
\* selected position, the k-th holding what detection finds in the pattern at
\* (Rx[k], Ry[k]); with Rx and Ry of different lengths it fails before any
\* pattern is detected; and Rx and Ry given as single ints are taken as one
\* position, so the call does not fail on their type.
C18_SelectedTuple ==
  call.fn = "find_Bragg_disks_selected" =>
    /\ pc = "done" =>
         /\ result.kind = "tuple"
         /\ Len(result.tuple) = Len(call.Rx.at)
         /\ \A k \in 1 .. Len(result.tuple) :
              Rows(result.tuple[k]) =
                add_tuple_of_nparrays(<<>>,
                  DetectMaxima(datacube.data[SelectedAt(call.Rx, call.Ry, k - 1)],
                               subpixel))
         /\ \A j \in 1 .. Len(result.tuple), k \in 1 .. Len(result.tuple) :
              j # k => result.tuple[j] # result.tuple[k]
    /\ (Len(call.Rx.at) # Len(call.Ry.at) /\ pc # "idle") =>
         /\ pc = "error"
         /\ heap = <<>>
         /\ \A op \in CorrelationWork \ {"fft2(probe)"} : ~ Done(op)
    /\ (call.Rx.isInt /\ call.Ry.isInt) => err # "TypeError"

\* C19 as stated: the surface returned with return_cc set is the clamped
\* correlation that was handed to the maxima search, not processed further.
C19_ReturnsRawSurface ==
  (SinglePattern /\ pc = "done" /\ call.return_cc) =>
    /\ result.kind = "peaks, cc"
    /\ result.cc = cc

\* C19 amended: the surface returned with return_cc set is the clamped
\* correlation smoothed by gaussian_filter with the call's sigma, of the
\* pattern's shape; it is the clamped correlation itself when sigma is 0.
\* Without return_cc the peaks are returned alone.
C19_ReturnsSmoothedSurface ==
  (SinglePattern /\ pc = "done") =>
    IF call.return_cc
    THEN /\ result.kind = "peaks, cc"
         /\ result.cc = gaussian_filter(cc, call.sigma)
         /\ cc = CorrelationSurface(call.DP, subpixel, call.corrPower)
         /\ Shape(result.cc) = Shape(call.DP.data)
         /\ \A a \in DOMAIN result.cc :
              Len(result.cc[a]) = Shape(call.DP.data)[2]
         /\ call.sigma = 0 => result.cc = cc
    ELSE /\ result.kind = "peaks"
         /\ result.cc = <<>>

C19_Witness ==
  /\ SinglePattern
  /\ pc = "done"
  /\ call.return_cc
  /\ call.sigma > 0
  /\ result.cc # cc
  /\ \E a \in 1 .. Len(cc) : \E b \in 1 .. Len(cc[a]) :
        cc[a][b] = 0 /\ result.cc[a][b] > 0

\* C20: find_Bragg_disks_single_DP_FK given a PointList adds the detected
\* peaks after the rows it holds, which stay as they were, and returns that
\* PointList, no other being made; given None it returns a new PointList with
\* the columns qx, qy, intensity that holds the detected peaks and nothing
\* else; given an object that is no PointList it fails and leaves the object
\* as it was.
C20_TargetPointList ==
  (call.fn = "find_Bragg_disks_single_DP_FK" /\ pc # "idle") =>
    LET found == add_tuple_of_nparrays(<<>>, DetectMaxima(call.DP, subpixel))
    IN /\ (pc = "done" /\ call.peaks # 0) =>
            /\ IsPointList(heap0[call.peaks])
            /\ result.peaks = call.peaks
            /\ DOMAIN heap = DOMAIN heap0
            /\ Rows(call.peaks) = RowsAtCall(call.peaks) \o found
            /\ heap[call.peaks].coordinates = heap0[call.peaks].coordinates
       /\ (pc = "done" /\ call.peaks = 0) =>
            /\ result.peaks \in DOMAIN heap \ DOMAIN heap0
            /\ heap[result.peaks].coordinates = {"qx", "qy", "intensity"}
            /\ Rows(result.peaks) = found
            /\ \A r \in DOMAIN heap0 : heap[r] = heap0[r]
       /\ (call.peaks # 0 /\ ~ IsPointList(heap0[call.peaks])) =>
            /\ pc = "error"
            /\ heap = heap0
            /\ result = NoResult

C20_Witness ==
  /\ call.fn = "find_Bragg_disks_single_DP_FK"
  /\ pc = "done"
  /\ call.peaks # 0
  /\ result.peaks = call.peaks
  /\ RowsAtCall(call.peaks) # <<>>
  /\ Len(Rows(call.peaks)) = Len(RowsAtCall(call.peaks)) + 2

----------------------------------------------------------------------------
(* Notions the properties of a whole call of threshold_Braggpeaks are      *)
(* stated with                                                             *)

\* the mask the sweep ends with when it starts from row n (0-based)
RECURSIVE SweepMask(_, _, _, _)
SweepMask(rows, mask, n, r2) ==
  IF n >= Len(rows) THEN mask
  ELSE SweepMask(rows, SweepStep(rows, mask, n, r2), n + 1, r2)

\* the rows the intensity step, the spacing step and the truncation leave
AfterIntensity(rows, mri, mps, mnp) ==
  IF IntensityEnabled(mri, mps, mnp) /\ rows # <<>>
  THEN PointList_remove_points(rows, IntensityMask(rows, mri))
  ELSE rows

AfterSpacing(rows, mri, mps, mnp) ==
  IF SpacingEnabled(mri, mps, mnp)
  THEN PointList_remove_points(rows,
         SweepMask(rows, Zeros(Len(rows)), 0, R2(mps)))
  ELSE rows

AfterTruncation(rows, mri, mps, mnp) ==
  IF TruncateEnabled(mri, mps, mnp) /\ mnp.val < Len(rows)
  THEN PointList_remove_points(rows, TruncateMask(Len(rows), mnp))
  ELSE rows

\* what the body of the loops makes of the rows of one cell taken alone
ThresholdCell(rows, mri, mps, mnp) ==
  AfterTruncation(
    AfterSpacing(AfterIntensity(SortCell(rows), mri, mps, mnp), mri, mps, mnp),
    mri, mps, mnp)

\* a call of threshold_Braggpeaks on a grid of the required schema has ended
Ended ==
  /\ pointlistarray0.id # 0
  /\ SchemaOK(pointlistarray0)
  /\ pc \in {"done", "error"}

\* C21: when a call of threshold_Braggpeaks on a grid of the required schema
\* has ended, every cell holds what the filtering of its own initial rows
\* with the three parameters yields, whatever the other cells hold, as any
\* order of processing the cells would leave it.
C21_CellsIndependent ==
  Ended =>
    \A r \in Refs :
       Rows(r) = ThresholdCell(RowsAtCall(r), minRelativeIntensity,
                               minPeakSpacing, maxNumPeaks)

----------------------------------------------------------------------------
(* threshold_Braggpeaks at the edges of its inputs: parameters with the    *)
(* numeric value 0, rows of intensity 0, coincident rows, and a second     *)
(* application to the grid a first one returned                            *)

EdgePoints == {<<0, 0>>, <<4, 4>>}
EdgeIntensities == {0, 1}
EdgePool == {Peak(p, v) : p \in EdgePoints, v \in EdgeIntensities}
EdgeRowLists == UNION {[1 .. n -> EdgePool] : n \in 0 .. MaxRows}

EdgeRelIntensityValues == {PyFalse, Num(0), Frac(1, 2)}
EdgePeakSpacingValues == {PyFalse, Num(0), Num(2)}
EdgeNumPeaksValues == {PyFalse, Num(0), Num(1)}

threshold_Braggpeaks_edge ==
  /\ pc = "idle"
  /\ \E mri \in EdgeRelIntensityValues, mps \in EdgePeakSpacingValues,
        mnp \in EdgeNumPeaksValues :
       threshold_Braggpeaks_enter(mri, mps, mnp)
  /\ UNCHANGED <<Rx, Ry, ret, pointlistarray0, heap0>>
  /\ UNCHANGED detectVars
  /\ UNCHANGED arrayVars

\* threshold_Braggpeaks applied to the grid it has returned, with the same
\* three parameters
threshold_Braggpeaks_again ==
  /\ pc = "done"
  /\ call.fn = ""
  /\ ret = pointlistarray.id
  /\ threshold_Braggpeaks_enter(minRelativeIntensity, minPeakSpacing,
                                maxNumPeaks)
  /\ Rx' = 0
  /\ Ry' = 0
  /\ ret' = 0
  /\ pointlistarray0' = pointlistarray
  /\ heap0' = heap
  /\ call' = [call EXCEPT !.fn = "threshold_Braggpeaks"]
  /\ UNCHANGED <<cc, work, upsampled, result>>
  /\ UNCHANGED arrayVars

InitEdge ==
  /\ pc = "idle"
  /\ err = ""
  /\ datacube = NoCube
  /\ subpixel = "poly"
  /\ \E shape \in GridShapes, L \in EdgeRowLists :
       \E cut \in 0 .. Len(L) :
         /\ NumCells(shape) = 1 => cut = Len(L)
         /\ pointlistarray = MakeGrid(shape, PeakCoords)
         /\ heap = MakeHeap(shape, PeakCoords, L, cut)
  /\ minRelativeIntensity = PyFalse
  /\ minPeakSpacing = PyFalse
  /\ maxNumPeaks = PyFalse
  /\ Rx = 0
  /\ Ry = 0
  /\ i = 0
  /\ deletemask = <<>>
  /\ ret = 0
  /\ pointlistarray0 = pointlistarray
  /\ heap0 = heap
  /\ writeLog = <<>>
  /\ call = NoCall
  /\ cc = <<>>
  /\ work = <<>>
  /\ upsampled = <<>>
  /\ result = NoResult
  /\ args = NoArgs
  /\ array = NoArray
  /\ group = NoGroup
  /\ out = NoOut

NextEdge ==
  \/ threshold_Braggpeaks_edge
  \/ threshold_Braggpeaks_again
  \/ threshold_sort
  \/ threshold_intensity
  \/ threshold_sweep_init
  \/ threshold_sweep_iter
  \/ threshold_sweep_remove
  \/ threshold_truncate
  \/ threshold_return

SpecEdge == InitEdge /\ [][NextEdge]_vars

----------------------------------------------------------------------------
(* C26 *)

\* a cell whose rows at the call all have intensity 0
AllZero(r) ==
  /\ RowsAtCall(r) # <<>>
  /\ MaxIntensity(RowsAtCall(r)) = 0

\* C26: on a grid of the required schema threshold_Braggpeaks never ends in
\* an error, whatever filters are enabled, also when cells have zero rows or
\* a maximum intensity of 0: when it has ended, a cell that had zero rows has
\* zero rows, the intensity step has removed nothing from a cell whose
\* maximum is 0, and every cell holds its own rows filtered.
C26_CompletesOnEmptyCells ==
  /\ (pointlistarray0.id # 0 /\ SchemaOK(pointlistarray0)) => pc # "error"
  /\ Ended =>
       \A r \in Refs :
          /\ RowsAtCall(r) = <<>> => Rows(r) = <<>>
          /\ AllZero(r) =>
               AfterIntensity(SortCell(RowsAtCall(r)), minRelativeIntensity,
                              minPeakSpacing, maxNumPeaks)
                 = SortCell(RowsAtCall(r))
          /\ Rows(r) = ThresholdCell(RowsAtCall(r), minRelativeIntensity,
                                     minPeakSpacing, maxNumPeaks)

----------------------------------------------------------------------------
(* C27 *)

\* the step that ends the spacing sweep of a cell and removes the marked rows
SpacingStepEnds == pc = "sweep" /\ pc' = "truncate"

\* C27: when the spacing step of a cell ends, before the truncation, the rows
\* it leaves are those it did not mark, they are pairwise at a squared
\* distance of at least minPeakSpacing squared, and every row it removes is
\* at a squared distance below minPeakSpacing squared from a row that it
\* leaves and that precedes it in the descending-intensity order.
C27_GreedyMaximalSpacing ==
  [][SpacingStepEnds =>
       /\ NonIncreasing(heap[pointlist].data)
       /\ heap'[pointlist].data = Unmasked(heap[pointlist].data, deletemask)
       /\ PairwiseSpaced(heap'[pointlist].data)
       /\ \A k \in 1 .. Len(deletemask) :
            deletemask[k] =>
              \E j \in 1 .. k - 1 :
                 /\ ~deletemask[j]
                 /\ Nearer(Dist2(heap[pointlist].data[j],
                                 heap[pointlist].data[k]))]_vars

\* the sweep of a cell of three rows has removed the middle one and left two
C27_Witness ==
  /\ pc = "truncate"
  /\ SpacingEnabled(minRelativeIntensity, minPeakSpacing, maxNumPeaks)
  /\ ~minPeakSpacing.isFalse
  /\ deletemask = <<FALSE, TRUE, FALSE>>
  /\ Len(Rows(pointlist)) = 2
  /\ ~ Nearer(Dist2(Rows(pointlist)[1], Rows(pointlist)[2]))

----------------------------------------------------------------------------
(* C28 *)

\* threshold_Braggpeaks is being applied, or has been applied, to the grid
\* an earlier application returned, with the same three parameters
SecondApplication ==
  /\ call.fn = "threshold_Braggpeaks"
  /\ datacube = NoCube

\* C28: threshold_Braggpeaks is idempotent: a second application to its own
\* output with the same three parameters goes through and leaves the rows of
\* every cell, and their order, as the first application left them.
C28_Idempotent ==
  SecondApplication =>
    /\ pc # "error"
    /\ \A r \in Refs : Rows(r) = RowsAtCall(r)

----------------------------------------------------------------------------
(* C29 *)

\* a call of threshold_Braggpeaks on a grid of the required schema is under
\* way or has ended
Called ==
  /\ pointlistarray0.id # 0
  /\ SchemaOK(pointlistarray0)
  /\ pc # "idle"

SubMultiset(a, b) == \A row \in RowSet(a) : Count(row, a) <= Count(row, b)

AllDisabled ==
  /\ minRelativeIntensity.isFalse
  /\ minPeakSpacing.isFalse
  /\ maxNumPeaks.isFalse

\* minRelativeIntensity <= 1 and maxNumPeaks >= 1, where they are given
KeepsTheBrightest ==
  /\ minRelativeIntensity.isFalse
       \/ minRelativeIntensity.val <= minRelativeIntensity.den
  /\ maxNumPeaks.isFalse \/ maxNumPeaks.val >= 1

\* C29: threshold_Braggpeaks creates and alters no row: at every moment of a
\* call the rows of each cell are a sub-multiset of the (qx, qy, intensity)
\* rows it held at the call; with all three parameters False every cell ends
\* with exactly the rows it held, in sorted order; and with
\* minRelativeIntensity <= 1 and maxNumPeaks >= 1 a cell that was not empty
\* always holds a row of its maximal intensity.
C29_RowsOnlyRemoved ==
  Called =>
    \A r \in Refs :
       /\ SubMultiset(Rows(r), RowsAtCall(r))
       /\ (AllDisabled /\ pc = "done") =>
            /\ SubMultiset(RowsAtCall(r), Rows(r))
            /\ Rows(r) = SortCell(RowsAtCall(r))
       /\ (KeepsTheBrightest /\ RowsAtCall(r) # <<>>) =>
            \E k \in 1 .. Len(Rows(r)) :
               Rows(r)[k]["intensity"] = MaxIntensity(RowsAtCall(r))

\* a call has removed rows from a cell of three rows and left its brightest
C29_Witness ==
  /\ pc = "done"
  /\ SchemaOK(pointlistarray0)
  /\ KeepsTheBrightest
  /\ ~maxNumPeaks.isFalse
  /\ \E r \in Refs :
       /\ Len(RowsAtCall(r)) = 3
       /\ Len(Rows(r)) = 1
       /\ Rows(r)[1]["intensity"] = MaxIntensity(RowsAtCall(r))
       /\ \E k \in 1 .. 3 :
            RowsAtCall(r)[k]["intensity"] < MaxIntensity(RowsAtCall(r))

----------------------------------------------------------------------------
(* C30 *)

\* C30: the numeric value 0 does not disable a filter as False does.  With
\* maxNumPeaks = 0 the truncation of a cell removes every row of it, and a
\* call that returns leaves every cell with zero rows; with
\* minRelativeIntensity = 0 the intensity step builds its mask and removes no
\* row; with minPeakSpacing = 0 the spacing step removes no row, coincident
\* rows included.
C30_ZeroIsEnabled ==
  [][/\ (pc = "truncate" /\ maxNumPeaks = Num(0)) =>
          heap'[pointlist].data = <<>>
     /\ (pc' = "done" /\ maxNumPeaks' = Num(0)) =>
          \A r \in DOMAIN heap' : heap'[r].data = <<>>
     /\ (pc = "intensity" /\ pc' = "spacing" /\ minRelativeIntensity = Num(0)) =>
          /\ deletemask' = Zeros(Len(heap[pointlist].data))
          /\ heap' = heap
     /\ (pc = "sweep" /\ pc' = "truncate" /\ minPeakSpacing = Num(0)) =>
          /\ deletemask = Zeros(Len(heap[pointlist].data))
          /\ heap' = heap]_vars

\* the spacing step has run with minPeakSpacing = 0 on a cell whose first two
\* rows coincide and has left both, and maxNumPeaks = 0 is about to remove
\* them
C30_Witness ==
  /\ pc = "truncate"
  /\ minPeakSpacing = Num(0)
  /\ minRelativeIntensity = Num(0)
  /\ maxNumPeaks = Num(0)
  /\ deletemask = <<FALSE, FALSE>>
  /\ Len(Rows(pointlist)) = 2
  /\ Dist2(Rows(pointlist)[1], Rows(pointlist)[2]) = 0

----------------------------------------------------------------------------
(* The Array class of io/datastructure/array.py.  A Python str is the      *)
(* sequence of its characters, so that slicing and concatenating strings   *)
(* are what they are in the code; a numpy array is its shape and its       *)
(* elements by index tuple (0-based).                                      *)

\* Python values an argument may hold: None, True, a number, a list
PyNone == [kind |-> "None", num |-> 0, list |-> <<>>]
PyTrue == [kind |-> "True", num |-> 0, list |-> <<>>]
PyNumber(n) == [kind |-> "number", num |-> n, list |-> <<>>]
PyList(l) == [kind |-> "list", num |-> 0, list |-> l]
PyStr(s) == [kind |-> "str", num |-> 0, list |-> s]

\* a value returned, or the exception raised instead
Returned(v) == [err |-> "", val |-> v]
Raised(e) == [err |-> e, val |-> <<>>]

Str_dim == <<"d", "i", "m">>
Str_array == <<"a", "r", "r", "a", "y">>
Str_pixels == <<"p", "i", "x", "e", "l", "s">>
Str_unknown == <<"u", "n", "k", "n", "o", "w", "n">>
Str_labels == <<"_", "l", "a", "b", "e", "l", "s", "_">>
Str_Array == <<"A", "r", "r", "a", "y">>
Digits == <<"0", "1", "2", "3", "4", "5", "6", "7", "8", "9">>

\* str(n) of a small natural number, as an f-string formats it
Format(n) == <<Digits[n + 1]>>

AllButLast(s) == SubSeq(s, 1, Len(s) - 1)

\* the index tuples of an array of a shape
Indices(shape) ==
  IF shape = <<>> THEN {<<>>}
  ELSE {idx \in [1 .. Len(shape) -> 0 .. MaxOf(shape) - 1] :
          \A k \in 1 .. Len(shape) : idx[k] < shape[k]}

\* the position of an index tuple in C order
RECURSIVE Flat(_, _)
Flat(shape, idx) ==
  IF idx = <<>> THEN 0
  ELSE Flat(AllButLast(shape), AllButLast(idx)) * shape[Len(shape)]
       + idx[Len(idx)]

\* an array of a shape whose elements count up from first in C order
Ramp(shape, first) ==
  [shape |-> shape,
   at |-> [idx \in Indices(shape) |-> first + Flat(shape, idx)]]

\* data[..., idx]
TakeLast(data, idx) ==
  [shape |-> AllButLast(data.shape),
   at |-> [j \in Indices(AllButLast(data.shape)) |-> data.at[Append(j, idx)]]]

\* np.arange(start, stop, step) of integers, step # 0
arange(start, stop, step) ==
  LET n == IF (stop - start) * step <= 0 THEN 0
           ELSE (Abs(stop - start) + Abs(step) - 1) \div Abs(step)
  IN [k \in 1 .. n |-> start + (k - 1) * step]

\* Array._unpack_dim for numerical dim vectors
unpack_dim(dim, length) ==
  LET d == IF dim.kind = "number" THEN <<0, dim.num>> ELSE dim.list
      N == Len(d)
  IN IF N = 0 THEN Raised("IndexError")
     ELSE IF N = length THEN Returned(d)
     ELSE IF N = 2
          THEN LET start == d[1]
                   step == d[2] - d[1]
                   stop == start + step * length
               IN IF step = 0 THEN Raised("ZeroDivisionError")
                  ELSE Returned(arange(start, stop, step))
          ELSE Raised("Exception")

\* dim[:2]
FirstTwo(dim) == SubSeq(dim, 1, IF Len(dim) < 2 THEN Len(dim) ELSE 2)

\* Array._dim_is_linear
dim_is_linear(dim, length) ==
  LET dim_expanded == unpack_dim(PyList(FirstTwo(dim)), length)
  IN IF dim_expanded.err # "" THEN dim_expanded
     ELSE Returned(dim = dim_expanded.val)

\* lines 185-207: the labels of a stack, None for a plain Array
Array_slicelabels(slicelabels, depth) ==
  IF slicelabels.kind = "None" THEN PyNone
  ELSE IF slicelabels.kind = "True"
  THEN PyList([k \in 1 .. depth |-> Str_array \o Format(k - 1)])
  ELSE IF Len(slicelabels.list) < depth
  THEN PyList(slicelabels.list \o
              [k \in 1 .. depth - Len(slicelabels.list) |->
                 Str_array \o Format(Len(slicelabels.list) + k - 1)])
  ELSE PyList(SubSeq(slicelabels.list, 1, depth))

\* Labels.setup_labels_dict: the index a label stands for (0-based), the
\* last one when a label occurs twice
Labels_dict(labels) ==
  [l \in {labels[k] : k \in 1 .. Len(labels)} |->
     MaxOf([k \in 1 .. Len(labels) |->
              IF labels[k] = l THEN k - 1 ELSE 0])]

\* the exception of the first of a sequence of calls that raised, "" if none
FirstError(rs) ==
  IF \A n \in 1 .. Len(rs) : rs[n].err = "" THEN ""
  ELSE rs[MinOf(SelectSeq([n \in 1 .. Len(rs) |-> n],
                          LAMBDA n : rs[n].err # ""))].err

\* lines 210-240: the dim vectors.  With dims None the comprehension of line
\* 214 evaluates the name shape, which is bound nowhere.
Array_dims(dims, shape, rank) ==
  IF dims.kind = "None"
  THEN IF rank > 0 THEN Raised("NameError") ELSE Returned(<<>>)
  ELSE LET N == Len(dims.list)
       IN IF N > rank THEN Raised("Exception")
          ELSE LET rs == [n \in 1 .. N |-> unpack_dim(dims.list[n], shape[n])]
               IN IF FirstError(rs) # "" THEN Raised(FirstError(rs))
                  ELSE Returned([n \in 1 .. rank |->
                                   IF n <= N THEN rs[n].val
                                   ELSE arange(0, shape[n], 1)])

\* lines 182, 215, 227: the flags of the axes whose dim is in pixels, one per
\* axis of the data (the label axis of a stack included)
Array_dim_in_pixels(dims, fullrank, rank) ==
  [n \in 1 .. fullrank |->
     IF dims.kind = "None" THEN TRUE
     ELSE n > Len(dims.list) /\ n <= rank]

\* lines 243-260: the dim names
Array_dim_names(dim_names, rank) ==
  IF dim_names.kind = "None"
  THEN Returned([n \in 1 .. rank |-> Str_dim \o Format(n - 1)])
  ELSE IF Len(dim_names.list) < rank
  THEN Returned([n \in 1 .. rank |->
                   IF n <= Len(dim_names.list) THEN dim_names.list[n]
                   ELSE Str_dim \o Format(n - 1)])
  ELSE IF Len(dim_names.list) = rank THEN Returned(dim_names.list)
  ELSE Raised("Exception")

PixelsOrUnknown(flag) == IF flag THEN Str_pixels ELSE Str_unknown

\* lines 263-281: the dim units
Array_dim_units(dim_units, dim_in_pixels, rank) ==
  IF dim_units.kind = "None"
  THEN Returned([n \in 1 .. Len(dim_in_pixels) |->
                   PixelsOrUnknown(dim_in_pixels[n])])
  ELSE IF Len(dim_units.list) < rank
  THEN Returned([n \in 1 .. rank |->
                   IF n <= Len(dim_units.list) THEN dim_units.list[n]
                   ELSE PixelsOrUnknown(dim_in_pixels[n])])
  ELSE IF Len(dim_units.list) = rank THEN Returned(dim_units.list)
  ELSE Raised("Exception")

\* Array.__init__: the instance, or the exception raised
Array(data, name, units, dims, dim_names, dim_units, slicelabels) ==
  LET fullrank == Len(data.shape)
      is_stack == slicelabels.kind # "None"
      depth == IF is_stack THEN data.shape[fullrank] ELSE 0
      shape == IF is_stack THEN AllButLast(data.shape) ELSE data.shape
      rank == IF is_stack THEN fullrank - 1 ELSE fullrank
      ds == Array_dims(dims, shape, rank)
      ns == Array_dim_names(dim_names, rank)
      us == Array_dim_units(dim_units,
                            Array_dim_in_pixels(dims, fullrank, rank), rank)
  IN IF ds.err # "" THEN Raised(ds.err)
     ELSE IF ns.err # "" THEN Raised(ns.err)
     ELSE IF us.err # "" THEN Raised(us.err)
     ELSE Returned([data |-> data, name |-> name, units |-> units,
                    dims |-> ds.val, dim_names |-> ns.val,
                    dim_units |-> us.val, shape |-> shape, rank |-> rank,
                    depth |-> depth, is_stack |-> is_stack,
                    slicelabels |-> Array_slicelabels(slicelabels, depth)])

\* Array.get_slice(label), name not given
get_slice(self, label) ==
  IF ~self.is_stack THEN Raised("AttributeError")
  ELSE IF label \notin DOMAIN Labels_dict(self.slicelabels.list)
  THEN Raised("KeyError")
  ELSE Array(TakeLast(self.data, Labels_dict(self.slicelabels.list)[label]),
             self.name \o <<"_">> \o label,
             AllButLast(self.units),
             PyList([n \in 1 .. Len(self.dims) - 1 |-> PyList(self.dims[n])]),
             PyList(AllButLast(self.dim_names)),
             PyList(AllButLast(self.dim_units)),
             PyNone)

\* lines 305-327: Array.set_dim(n, dim, units, name), n >= 0: the Array as
\* it is left, or the exception raised before anything is assigned
set_dim(self, n, dim, units, name) ==
  IF n >= Len(self.shape) THEN Raised("IndexError")
  ELSE LET r == unpack_dim(dim, self.shape[n + 1])
       IN IF r.err # "" THEN Raised(r.err)
          ELSE Returned(
                 [self EXCEPT
                    !.dims = [@ EXCEPT ![n + 1] = r.val],
                    !.dim_units = IF units.kind = "None" THEN @
                                  ELSE [@ EXCEPT ![n + 1] = units.list],
                    !.dim_names = IF name.kind = "None" THEN @
                                  ELSE [@ EXCEPT ![n + 1] = name.list]])

\* lines 500-502: Labels.__setitem__(idx, label) on array.slicelabels,
\* idx >= 0; the dict is set up again from the list.  A plain Array has None
\* for its slicelabels, which takes no item.
Labels_setitem(self, idx, label) ==
  IF self.slicelabels.kind = "None" THEN Raised("TypeError")
  ELSE IF idx >= Len(self.slicelabels.list) THEN Raised("IndexError")
  ELSE Returned([self EXCEPT
                   !.slicelabels = PyList([self.slicelabels.list
                                             EXCEPT ![idx + 1] = label])])

\* the characters labels are written with, and their UTF-8 codes
Characters ==
  <<"0", "1", "2", "3", "4", "5", "6", "7", "8", "9", "_", "a", "b", "c",
    "d", "e", "f", "g", "h", "i", "j", "k", "l", "m", "n", "o", "p", "q",
    "r", "s", "t", "u", "v", "w", "x", "y", "z">>

Ord(c) ==
  LET k == CHOOSE j \in 1 .. Len(Characters) : Characters[j] = c
  IN IF k <= 10 THEN 47 + k ELSE IF k = 11 THEN 95 ELSE 85 + k

Chr(b) ==
  IF b <= 57 THEN Characters[b - 47]
  ELSE IF b = 95 THEN Characters[11] ELSE Characters[b - 85]

\* s.encode('utf-8') and b.decode('utf-8')
encode(s) == [k \in 1 .. Len(s) |-> Ord(s[k])]
decode(b) == [k \in 1 .. Len(b) |-> Chr(b[k])]

\* an HDF5 group with one more key
WithKey(grp, key, entry) ==
  [k \in DOMAIN grp \cup {key} |-> IF k = key THEN entry ELSE grp[k]]

\* the attributes of a group that is not tagged, and of one tagged with a type
NoAttrs == [a \in {} |-> 0]
TypeAttrs(t) == [a \in {"emd_group_type"} |-> t]

\* the dim datasets to_h5 writes for the axes before one
DimDatasets(self, linear, upto) ==
  [n \in 1 .. upto |->
     [data |-> IF linear[n].val THEN FirstTwo(self.dims[n]) ELSE self.dims[n],
      bytes |-> <<>>,
      attrs |-> [name |-> self.dim_names[n], units |-> self.dim_units[n]]]]

\* the dataset to_h5 writes for the labels of a stack
LabelDataset(self) ==
  [data |-> <<>>,
   bytes |-> [k \in 1 .. Len(self.slicelabels.list) |->
                encode(self.slicelabels.list[k])],
   attrs |-> [name |-> Str_labels]]

\* the lowest integer n for which the group holds no key 'Array<n>'
LowestFree(grp) ==
  CHOOSE n \in 0 .. 9 :
    /\ Str_Array \o Format(n) \notin DOMAIN grp
    /\ \A m \in 0 .. n - 1 : Str_Array \o Format(m) \in DOMAIN grp

\* determine_group_name: an Array without a name is assigned the name
\* 'Array#', # the lowest available integer; a name the group already holds
\* is refused.  The value returned is the name the Array has afterwards.
determine_group_name(self, grp) ==
  IF self.name = <<>> THEN Returned(Str_Array \o Format(LowestFree(grp)))
  ELSE IF self.name \in DOMAIN grp THEN Raised("Exception")
  ELSE Returned(self.name)

\* Array.to_h5: the exception raised, "" if none, the group as it is left,
\* and the Array as it is left (determine_group_name may have named it)
to_h5(given, grp) ==
  LET named == determine_group_name(given, grp)
  IN IF named.err # ""
     THEN [err |-> named.err, group |-> grp, self |-> given]
     ELSE LET self == [given EXCEPT !.name = named.val]
              linear == [n \in 1 .. self.rank |->
                           dim_is_linear(self.dims[n], self.shape[n])]
              bad == FirstError(linear)
              upto == IF bad = "" THEN self.rank
                      ELSE MinOf(SelectSeq([n \in 1 .. self.rank |-> n],
                                           LAMBDA n : linear[n].err # "")) - 1
              dims == DimDatasets(self, linear, upto)
                      \o (IF bad = "" /\ self.is_stack
                          THEN <<LabelDataset(self)>> ELSE <<>>)
          IN [err |-> bad,
              group |-> WithKey(grp, self.name,
                                [attrs |-> TypeAttrs(1),
                                 py4dstem_class |-> "Array",
                                 data |-> self.data,
                                 units |-> self.units,
                                 dims |-> dims]),
              self |-> self]

\* find_Arrays: the keys of the groups tagged as Arrays
find_Arrays(grp) ==
  LET keys == {k \in DOMAIN grp : "emd_group_type" \in DOMAIN grp[k].attrs}
  IN {k \in keys : grp[k].attrs["emd_group_type"] = 1}

Array_exists(grp, name) ==
  IF name \in DOMAIN grp
  THEN IF "emd_group_type" \in DOMAIN grp[name].attrs
       THEN IF grp[name].attrs["emd_group_type"] = 1 THEN TRUE ELSE FALSE
       ELSE FALSE
  ELSE FALSE

\* Array_from_h5: the Array read, or the exception raised.  The elements of
\* a last dim named '_labels_' are decoded one by one (lines 555-556); those
\* of a dataset of numbers have no decode.
Array_from_h5(grp, name) ==
  IF ~Array_exists(grp, name) THEN Raised("AssertionError")
  ELSE LET g == grp[name]
           rank == Len(g.data.shape)
       IN IF rank = 0 \/ rank > Len(g.dims) THEN Raised("KeyError")
          ELSE LET last_dim == g.dims[rank]
                   is_stack == last_dim.attrs.name = Str_labels
                   normal_dims == IF is_stack THEN rank - 1 ELSE rank
               IN IF is_stack /\ last_dim.data # <<>>
                  THEN Raised("AttributeError")
                  ELSE Array(g.data, name, g.units,
                             PyList([n \in 1 .. normal_dims |->
                                       PyList(g.dims[n].data)]),
                             PyList([n \in 1 .. normal_dims |->
                                       g.dims[n].attrs.name]),
                             PyList([n \in 1 .. normal_dims |->
                                       g.dims[n].attrs.units]),
                             IF is_stack
                             THEN PyList([k \in 1 .. Len(last_dim.bytes) |->
                                            decode(last_dim.bytes[k])])
                             ELSE PyNone)

\* the names virtualdiffraction.py binds at module level (lines 4-10) and
\* from_h5 binds before it reads one (lines 93-106)
VirtualDiffraction_bound ==
  {"DiffractionSlice", "Metadata", "Optional", "Union", "np", "h5py",
   "VirtualDiffraction", "group"}

\* the exception reading a name raises, "" when the name is bound
Lookup(id, bound) == IF id \in bound THEN "" ELSE "NameError"

\* VirtualDiffraction.from_h5: its first statement, line 106, reads the name
\* Array; nothing after it is reached
VirtualDiffraction_from_h5(g) ==
  Raised(Lookup("Array", VirtualDiffraction_bound))

----------------------------------------------------------------------------
(* Arrays constructed, sliced, written to a group and read back *)

\* the variables the Array operations leave alone
diskVars == <<datacube, subpixel, pointlistarray, heap, minRelativeIntensity,
              minPeakSpacing, maxNumPeaks, Rx, Ry, i, deletemask, ret,
              pointlistarray0, heap0, writeLog, call, cc, work, upsampled,
              result>>

Str_a == <<"a">>
Str_b == <<"b">>
Str_dp == <<"d", "p">>
Str_nm == <<"n", "m">>
Str_rx == <<"r", "x">>
Str_ry == <<"r", "y">>
Str_qx == <<"q", "x">>
Str_qy == <<"q", "y">>
Str_x == <<"x">>
Str_y == <<"y">>
Str_none == <<"n", "o">>

\* the data arrays, and for each whether it is passed plain or as a stack
DataShapes == {<<3>>, <<3, 2>>, <<2, 3, 2>>}
SliceLabelArgs == {PyNone, PyTrue, PyList(<<Str_a>>), PyList(<<Str_a, Str_b>>)}
RankOf(shape, slicelabels) ==
  IF slicelabels.kind = "None" THEN Len(shape) ELSE Len(shape) - 1

\* what a dim may be passed as: a step, the first two elements, a full vector
\* (of an axis of length 3) that is not linear
DimArgs ==
  {PyNumber(2), PyList(<<1, 3>>), PyList(<<0, 0, 1>>), PyList(<<0, 1, 4>>)}

\* the lists of at most n elements of a set
ListsUpTo(S, n) == UNION {[1 .. k -> S] : k \in 0 .. n}

DimsArgs(rank) == {PyNone} \cup {PyList(l) : l \in ListsUpTo(DimArgs, rank + 1)}

AxisNames == <<Str_rx, Str_ry, Str_qx, Str_qy>>
NameArgs(rank) ==
  {PyNone, PyList(<<Str_labels>>)}
  \cup {PyList(SubSeq(AxisNames, 1, k)) : k \in 0 .. rank + 1}
UnitArgs(rank) ==
  {PyNone} \cup {PyList([n \in 1 .. k |-> Str_nm]) : k \in 0 .. rank + 1}

\* the names: none, the default of the constructor, and one of this model
ArrayNames == {<<>>, Str_array, Str_dp}
ArrayUnits == {<<>>, Str_nm}

\* an Array written to the group earlier
Earlier ==
  Array(Ramp(<<2>>, 0), Str_dp, <<>>, PyList(<<>>), PyNone, PyNone, PyNone).val

\* a group holding a group that is not tagged and one tagged with another type
OtherGroups ==
  WithKey(WithKey(NoAttrs, Str_x,
                  [attrs |-> NoAttrs, py4dstem_class |-> "", data |-> <<>>,
                   units |-> <<>>, dims |-> <<>>]),
          Str_y,
          [attrs |-> TypeAttrs(2), py4dstem_class |-> "", data |-> <<>>,
           units |-> <<>>, dims |-> <<>>])

\* an Array without a name written to the group earlier
EarlierUnnamed ==
  Array(Ramp(<<2>>, 0), <<>>, <<>>, PyList(<<>>), PyNone, PyNone, PyNone).val

Groups ==
  {OtherGroups, to_h5(Earlier, OtherGroups).group,
   to_h5(EarlierUnnamed, OtherGroups).group}

\* the arguments tried for set_dim and for the assignment of a label
SetDimAxes == {0, 1}
SetDimArgs == {PyList(<<0, 5>>), PyList(<<0, 0, 1>>)}
SetDimUnits == {PyNone, PyStr(Str_nm)}
SetDimNames == {PyNone, PyStr(Str_rx)}
LabelIndices == {0, 1}

\* Array(data, name, units, dims, dim_names, dim_units, slicelabels)
Array_new ==
  /\ pc = "idle"
  /\ LET r == Array(args.data, args.name, args.units, args.dims,
                    args.dim_names, args.dim_units, args.slicelabels)
     IN IF r.err # ""
        THEN /\ Raise(r.err)
             /\ UNCHANGED array
        ELSE /\ array' = r.val
             /\ pc' = "made"
             /\ err' = err
  /\ UNCHANGED <<args, group, out>>
  /\ UNCHANGED diskVars

\* array.set_dim(n, dim, units, name), once on a made Array
Array_set_dim ==
  /\ pc = "made"
  /\ \E n \in SetDimAxes, dim \in SetDimArgs, units \in SetDimUnits,
        name \in SetDimNames :
       LET r == set_dim(array, n, dim, units, name)
       IN /\ out' = [op |-> "set_dim", arg |-> <<n>>, err |-> r.err,
                     val |-> PyNone]
          /\ IF r.err # ""
             THEN Raise(r.err) /\ UNCHANGED array
             ELSE array' = r.val /\ pc' = "edited" /\ err' = err
  /\ UNCHANGED <<args, group>>
  /\ UNCHANGED diskVars

\* array.slicelabels[idx] = label, once on a made Array
Array_set_label ==
  /\ pc = "made"
  /\ \E idx \in LabelIndices :
       LET r == Labels_setitem(array, idx, Str_b)
       IN /\ out' = [op |-> "slicelabels.__setitem__", arg |-> <<idx>>,
                     err |-> r.err, val |-> PyNone]
          /\ IF r.err # ""
             THEN Raise(r.err) /\ UNCHANGED array
             ELSE array' = r.val /\ pc' = "edited" /\ err' = err
  /\ UNCHANGED <<args, group>>
  /\ UNCHANGED diskVars

\* array.get_slice(label)
Array_get_slice ==
  /\ pc \in {"made", "edited"}
  /\ \E label \in {Str_a, Str_b, Str_array \o Format(0), Str_array \o Format(1)} :
       LET r == get_slice(array, label)
       IN /\ out' = [op |-> "get_slice", arg |-> label, err |-> r.err,
                     val |-> r.val]
          /\ IF r.err # "" THEN Raise(r.err)
             ELSE pc' = "sliced" /\ err' = err
  /\ UNCHANGED <<args, array, group>>
  /\ UNCHANGED diskVars

\* array.to_h5(group)
Array_to_h5 ==
  /\ pc \in {"made", "edited"}
  /\ LET r == to_h5(array, group)
     IN /\ group' = r.group
        /\ array' = r.self
        /\ IF r.err # "" THEN Raise(r.err)
           ELSE pc' = "written" /\ err' = err
  /\ UNCHANGED <<args, out>>
  /\ UNCHANGED diskVars

\* Array_from_h5(group, name)
Array_read ==
  /\ pc = "written"
  /\ \E key \in DOMAIN group \cup {Str_none} :
       LET r == Array_from_h5(group, key)
       IN /\ out' = [op |-> "Array_from_h5", arg |-> key, err |-> r.err,
                     val |-> r.val]
          /\ IF r.err # "" THEN Raise(r.err)
             ELSE pc' = "read" /\ err' = err
  /\ UNCHANGED <<args, array, group>>
  /\ UNCHANGED diskVars

\* find_Arrays(group), and Array_exists(group, name) for a name
Array_find ==
  /\ pc = "written"
  /\ \E key \in DOMAIN group \cup {Str_none} :
       out' = [op |-> "find_Arrays", arg |-> key, err |-> "",
               val |-> [found |-> find_Arrays(group),
                        exists |-> Array_exists(group, key)]]
  /\ pc' = "found"
  /\ UNCHANGED <<err, args, array, group>>
  /\ UNCHANGED diskVars

\* VirtualDiffraction.from_h5(group[key])
VirtualDiffraction_read ==
  /\ pc = "written"
  /\ \E key \in DOMAIN group :
       LET r == VirtualDiffraction_from_h5(group[key])
       IN /\ out' = [op |-> "VirtualDiffraction.from_h5", arg |-> key,
                     err |-> r.err, val |-> r.val]
          /\ IF r.err # "" THEN Raise(r.err)
             ELSE pc' = "read" /\ err' = err
  /\ UNCHANGED <<args, array, group>>
  /\ UNCHANGED diskVars

InitArray ==
  /\ pc = "idle"
  /\ err = ""
  /\ datacube = NoCube
  /\ subpixel = "poly"
  /\ pointlistarray = NoGrid
  /\ heap = <<>>
  /\ minRelativeIntensity = PyFalse
  /\ minPeakSpacing = PyFalse
  /\ maxNumPeaks = PyFalse
  /\ Rx = 0
  /\ Ry = 0
  /\ i = 0
  /\ deletemask = <<>>
  /\ ret = 0
  /\ pointlistarray0 = NoGrid
  /\ heap0 = <<>>
  /\ writeLog = <<>>
  /\ call = NoCall
  /\ cc = <<>>
  /\ work = <<>>
  /\ upsampled = <<>>
  /\ result = NoResult
  /\ \E shape \in DataShapes, slicelabels \in SliceLabelArgs :
       /\ RankOf(shape, slicelabels) \in 1 .. 2
       /\ \E name \in ArrayNames, units \in ArrayUnits,
             dims \in DimsArgs(RankOf(shape, slicelabels)),
             dim_names \in NameArgs(RankOf(shape, slicelabels)),
             dim_units \in UnitArgs(RankOf(shape, slicelabels)) :
            args = [data |-> Ramp(shape, 0), name |-> name, units |-> units,
                    dims |-> dims, dim_names |-> dim_names,
                    dim_units |-> dim_units, slicelabels |-> slicelabels]
  /\ array = NoArray
  /\ group \in Groups
  /\ out = NoOut

NextArray ==
  \/ Array_new
  \/ Array_set_dim
  \/ Array_set_label
  \/ Array_get_slice
  \/ Array_to_h5
  \/ Array_read
  \/ Array_find
  \/ VirtualDiffraction_read

SpecArray == InitArray /\ [][NextArray]_vars

----------------------------------------------------------------------------
(* C22 *)

\* the constructor has returned an Array, or has raised
Made == array # NoArray
FailedNew == pc = "error" /\ array = NoArray

\* only a data array is passed
DataAlone ==
  /\ args.dims = PyNone
  /\ args.dim_names = PyNone
  /\ args.dim_units = PyNone
  /\ args.slicelabels = PyNone

\* the integers 0 .. length-1
PixelDim(length) == [k \in 1 .. length |-> k - 1]

\* more elements than the Array has axes
TooMany(arg) ==
  arg.kind = "list" /\ Len(arg.list) > RankOf(args.data.shape, args.slicelabels)

\* C22: constructing an Array from a data array alone succeeds and gives
\* every axis the dim 0 .. shape[n]-1, the unit 'pixels' and the name
\* 'dim<n>'; with fewer dims than axes the axes left are given the same dim;
\* with more dims, dim_names or dim_units than axes the constructor raises.
C22_DefaultDims ==
  pc # "idle" =>
    /\ DataAlone =>
         /\ Made
         /\ \A n \in 1 .. Len(args.data.shape) :
              /\ array.dims[n] = PixelDim(args.data.shape[n])
              /\ array.dim_units[n] = Str_pixels
              /\ array.dim_names[n] = Str_dim \o Format(n - 1)
         /\ Len(array.dims) = Len(args.data.shape)
         /\ Len(array.dim_units) = Len(args.data.shape)
         /\ Len(array.dim_names) = Len(args.data.shape)
    /\ (Made /\ args.dims.kind = "list") =>
         \A n \in Len(args.dims.list) + 1 .. array.rank :
            array.dims[n] = PixelDim(array.shape[n])
    /\ (TooMany(args.dims) \/ TooMany(args.dim_names)
        \/ TooMany(args.dim_units)) => FailedNew

----------------------------------------------------------------------------
(* C23 *)

\* get_slice has been called on a stack with one of its labels
SliceTaken ==
  /\ out.op = "get_slice"
  /\ array.is_stack
  /\ \E k \in 1 .. Len(array.slicelabels.list) :
        array.slicelabels.list[k] = out.arg

\* the index of the label the slice was asked by (0-based)
SliceIndex ==
  (CHOOSE k \in 1 .. Len(array.slicelabels.list) :
      array.slicelabels.list[k] = out.arg) - 1

\* C23: get_slice(label) on a stack Array of rank N returns an Array that is
\* not a stack, has rank N, holds the data at the label's index of the last
\* axis, and has the units of the stack and, for each of the N axes, its
\* dim, dim name and dim units.
C23_SliceKeepsAxes ==
  SliceTaken =>
    /\ out.err = ""
    /\ ~out.val.is_stack
    /\ out.val.rank = array.rank
    /\ out.val.data = TakeLast(array.data, SliceIndex)
    /\ out.val.units = array.units
    /\ \A n \in 1 .. array.rank :
         /\ out.val.dims[n] = array.dims[n]
         /\ out.val.dim_names[n] = array.dim_names[n]
         /\ out.val.dim_units[n] = array.dim_units[n]

----------------------------------------------------------------------------
(* C24 *)

\* to_h5 has been called on the Array and has raised
WriteFailed == pc = "error" /\ Made /\ out = NoOut

\* the Array has been written and read back under its name
ReadBack == out.op = "Array_from_h5" /\ out.arg = array.name

\* C24: to_h5 writes every Array whose name the group does not hold yet, and
\* Array_from_h5 under the same name then returns an Array with equal data,
\* name, units, rank, dims, dim_names, dim_units and slicelabels, for plain
\* Arrays and stacks, linear dims and others; and Array_exists(group, name)
\* holds exactly for the names find_Arrays(group) returns.
C24_RoundTrip ==
  /\ WriteFailed => err = "Exception"
  /\ ReadBack =>
       /\ out.err = ""
       /\ out.val.data = array.data
       /\ out.val.name = array.name
       /\ out.val.units = array.units
       /\ out.val.rank = array.rank
       /\ out.val.dims = array.dims
       /\ out.val.dim_names = array.dim_names
       /\ out.val.dim_units = array.dim_units
       /\ out.val.slicelabels = array.slicelabels
  /\ out.op = "find_Arrays" => (out.val.exists <=> out.arg \in out.val.found)

----------------------------------------------------------------------------
(* C25 *)

\* the group stored under a key holds a valid Array of rank 2
ValidRank2(key) ==
  /\ Array_exists(group, key)
  /\ Array_from_h5(group, key).err = ""
  /\ Array_from_h5(group, key).val.rank = 2

\* C25: VirtualDiffraction.from_h5 applied to a group that holds a valid
\* Array of rank 2 raises nothing and returns a VirtualDiffraction with the
\* data and the name stored there; applied to any other group it raises.
C25_LoadsVirtualDiffraction ==
  out.op = "VirtualDiffraction.from_h5" =>
    IF ValidRank2(out.arg)
    THEN /\ out.err = ""
         /\ out.val.data = group[out.arg].data
         /\ out.val.name = out.arg
    ELSE out.err # ""

============================================================================
